---- MODULE Spec2Model ----
(***************************************************************************)
(* Context-window fitting of collection summaries (zoterolm).              *)
(*                                                                         *)
(* fitSummariesInContext (src/modules/summaries/fitter.ts) is modelled as  *)
(* a small state machine: the inputs of one call are drawn in Init, Begin  *)
(* is the code before the for-loop (model lookup, budget, sort), one       *)
(* LoopInclude / LoopExclude step is one iteration of the for-loop and     *)
(* Return builds the FitResult.                                            *)
(*                                                                         *)
(* Strings are sequences of one-character strings, so that .length is Len  *)
(* and localeCompare is a lexicographic comparison.                        *)
(***************************************************************************)
EXTENDS Integers, Sequences, FiniteSets, TLC

\* ------------------------------------------------------------------ bounds
\* longest candidate list handed to one fit call
MaxSummaries == 3
\* longest candidate text, in characters
MaxLen == 5
\* longest prompt text, in characters
MaxPromptLen == 1
\* most fit calls the call sites make one after the other
MaxCalls == 2
\* longest text given to estimateTokenCount, in characters
MaxTextLen == 64
\* longest byte array given to uint8ArrayToBase64
MaxBytes == 4
\* longest list of available ids given to resolveSelection
MaxIds == 3
\* most invocations of createDefaultPrompts that can overlap
MaxInvocations == 2
\* most calls of reader functions (generate, suggest, apply, ignore, notify)
MaxHandlers == 2
\* most selected items
MaxItems == 2
\* the maxContextTokens preference ranges over outputReserve + 0..MaxSlack
MaxSlack == 2

\* -------------------------------------------------------- program constants
\* fitter.ts:39  const outputReserve = 4000
outputReserve == 4000
\* addon/prefs.js:13  pref("maxContextTokens", 100000)
DefaultMaxContextTokens == 100000

\* JavaScript's undefined, for an optional string argument
Undefined == "undefined"

\* -------------------------------------------------------------------- state
VARIABLES
  summaries,         \* argument: the candidate summaries
  promptText,        \* argument: the prompt text
  modelId,           \* argument: a model id, or Undefined
  sortStrategy,      \* argument: "date", "alphabetical" or "size"
  maxContextTokens,  \* preference maxContextTokens
  defaultModel,      \* preference defaultModel
  pc,                \* "start", "loop" or "done"
  promptTokens,      \* local
  availableTokens,   \* local
  sortedSummaries,   \* local
  idx,               \* position of the for-loop in sortedSummaries
  included,          \* local
  excluded,          \* local
  totalTokens,       \* local
  result,            \* the returned FitResult, meaningful when pc = "done"
  geminiModelsPref,    \* preference geminiModels: the stored model list
  openaiModelsPref,    \* preference openaiModels: the stored model list
  cachedGeminiModels,  \* models.ts: let cachedGeminiModels
  cachedOpenAIModels,  \* models.ts: let cachedOpenAIModels
  pending,           \* arguments of the fit calls the call sites still make
  returned,          \* arguments and result of every fit call that returned
  kpc,               \* calculateFitCapacity: "idle", "start", "fitting", "done"
  fitCapacity,       \* calculateFitCapacity: the returned record
  collection,        \* summarizeCollection: the selected collection, or null
  cpc,               \* summarizeCollection: the await it has reached
  stage,             \* the progress tracker's state.stage
  errorShown,        \* showError has been called
  notified,          \* progress values the tracker has notified since its reset
  llmCalls,          \* number of calls of callLLM
  notes,             \* number of collection-summary notes saved
  options,           \* summarizeCollection: what the dialog returned
  prompt,            \* summarizeCollection: what getPromptById returned
  fitResult,         \* summarizeCollection: const fitResult
  estimateArg,       \* estimateTokenCount: argument (text)
  estimate,          \* estimateTokenCount: returned value
  bytes,             \* uint8ArrayToBase64: argument
  bytePos,           \* uint8ArrayToBase64: let i
  base64,            \* uint8ArrayToBase64: let result
  bpc,               \* uint8ArrayToBase64: "idle", "loop" or "done"
  currentId,         \* resolveSelection: argument
  availableIds,      \* resolveSelection: argument
  selection,         \* resolveSelection: returned record
  promptNotes,       \* the library's prompt notes: how many of each name
  invocation,        \* createDefaultPrompts: where each invocation stands
  defaultPromptId,   \* preference defaultPromptId
  enabled,           \* autotag.ts: let enabled
  childNotes,        \* the parent item's tagged child notes, in getNotes order
  annotationTags,    \* the tags of every annotation item
  suggestCalls,      \* number of calls of callLLM made for tag suggestions
  handler,           \* where each call of a reader function stands
  selectedItems,     \* ZoteroPane.getSelectedItems()
  itemIndex,         \* summarizeSelectedItems: i + 1
  successCount,
  errorCount,
  skippedCount,
  contentType,       \* options.contentType of the summarize dialog
  spc,               \* where summarizeSelectedItems stands
  checked,           \* ids of the models whose checkbox is checked
  enabledModels,     \* preference enabledModels
  enabledResult,     \* what getEnabledModels returned
  epc,               \* where the preference pane stands
  request,           \* the LLMRequest callLLM is called with
  providerCalls,     \* the provider functions callLLM has called, in order
  lpc                \* where callLLM stands

vars == << summaries, promptText, modelId, sortStrategy, maxContextTokens,
           defaultModel, pc, promptTokens, availableTokens, sortedSummaries,
           idx, included, excluded, totalTokens, result,
           geminiModelsPref, openaiModelsPref, cachedGeminiModels,
           cachedOpenAIModels, pending, returned, kpc, fitCapacity,
           collection, cpc, stage, errorShown, notified, llmCalls, notes, options,
           prompt, fitResult, estimateArg, estimate, bytes, bytePos, base64, bpc,
           currentId, availableIds, selection, promptNotes, invocation,
           defaultPromptId, enabled, childNotes, annotationTags,
           suggestCalls, handler, selectedItems, itemIndex, successCount,
           errorCount, skippedCount, contentType, spc, checked,
           enabledModels, enabledResult, epc, request, providerCalls, lpc >>

inputs == << summaries, promptText, modelId, sortStrategy, maxContextTokens,
             defaultModel >>

modelPrefs == << geminiModelsPref, openaiModelsPref >>

modelCache == << cachedGeminiModels, cachedOpenAIModels >>

\* the locals of fitSummariesInContext
fitLocals == << promptTokens, availableTokens, sortedSummaries, idx, included,
                excluded, totalTokens >>

capacityVars == << kpc, fitCapacity >>

collectionVars == << collection, cpc, stage, errorShown, notified, llmCalls,
                     notes, options, prompt, fitResult >>

estimateVars == << estimateArg, estimate >>

base64Vars == << bytes, bytePos, base64, bpc >>

selectionVars == << currentId, availableIds, selection >>

promptVars == << promptNotes, invocation, defaultPromptId >>

readerVars == << enabled, childNotes, annotationTags, suggestCalls, handler >>

batchVars == << selectedItems, itemIndex, successCount, errorCount,
               skippedCount, contentType, spc >>

enabledVars == << checked, enabledModels, enabledResult, epc >>

llmVars == << request, providerCalls, lpc >>

\* the other modules of the plugin
others == << promptVars, readerVars, batchVars, enabledVars, llmVars >>

\* the functions a fit call has no part in
utilities == << estimateVars, base64Vars, selectionVars, others >>

\* the callers of a fit call
callers == << capacityVars, collectionVars >>

\* the state no step of a fit call touches
outside == << pending, returned, callers, utilities >>

\* the fitter, its callers and the three pure functions
fitting == << inputs, pc, fitLocals, result, modelPrefs, modelCache, pending,
              returned, callers, estimateVars, base64Vars, selectionVars >>

\* ------------------------------------------------------------------ strings
\* a text of n characters; texts of odd length start with "b", so that the
\* alphabetical order of the texts differs from their order by length
TextOf(n) == [i \in 1..n |-> IF i = 1 /\ n % 2 = 1 THEN "b" ELSE "a"]

CharRank(c) == IF c = "a" THEN 1 ELSE IF c = "b" THEN 2 ELSE 3

Min2(a, b) == IF a <= b THEN a ELSE b

\* String.prototype.localeCompare on texts over the alphabet above:
\* negative, zero or positive as s sorts before, with or after t
localeCompare(s, t) ==
  LET common == Min2(Len(s), Len(t))
      diff == {i \in 1..common : s[i] # t[i]}
  IN IF diff = {}
       THEN (IF Len(s) < Len(t) THEN -1 ELSE IF Len(s) > Len(t) THEN 1 ELSE 0)
       ELSE LET k == CHOOSE i \in diff : \A j \in diff : i <= j
            IN IF CharRank(s[k]) < CharRank(t[k]) THEN -1 ELSE 1

\* -------------------------------------------------------------------- dates
\* metadata.date is an ISO date; it is kept as <<year, month, day>>
IsLeap(y) == (y % 4 = 0 /\ y % 100 # 0) \/ y % 400 = 0

DaysInMonth(y, m) ==
  IF m = 2 THEN (IF IsLeap(y) THEN 29 ELSE 28)
  ELSE IF m \in {4, 6, 9, 11} THEN 30 ELSE 31

\* the leap years of the Gregorian calendar before year y
LeapYearsBefore(y) == (y - 1) \div 4 - (y - 1) \div 100 + (y - 1) \div 400

\* the days from 1970-01-01 to the first day of year y
DaysBeforeYear(y) ==
  IF y <= 1970 THEN 0
  ELSE 365 * (y - 1970) + LeapYearsBefore(y) - LeapYearsBefore(1970)

RECURSIVE DaysBeforeMonth(_, _)
DaysBeforeMonth(y, m) ==
  IF m <= 1 THEN 0 ELSE DaysBeforeMonth(y, m - 1) + DaysInMonth(y, m - 1)

\* new Date(iso).getTime() of a date-only ISO string (midnight UTC), counted
\* in whole days since 1970-01-01 instead of milliseconds (the millisecond
\* count is this number times 86400000 and does not fit TLC's integers)
DateGetTime(d) ==
  DaysBeforeYear(d[1]) + DaysBeforeMonth(d[1], d[2]) + (d[3] - 1)

\* ------------------------------------------------------------------- models
FALLBACK_GEMINI_MODELS ==
  << [id |-> "gemini-2.0-flash-exp", contextWindow |-> 1000000],
     [id |-> "gemini-1.5-pro",       contextWindow |-> 2000000],
     [id |-> "gemini-1.5-flash",     contextWindow |-> 1000000] >>

FALLBACK_OPENAI_MODELS ==
  << [id |-> "gpt-4o",      contextWindow |-> 128000],
     [id |-> "gpt-4o-mini", contextWindow |-> 128000],
     [id |-> "gpt-4-turbo", contextWindow |-> 128000] >>

\* the result of a lookup that finds nothing (JavaScript's undefined)
undefinedModel == [id |-> Undefined, contextWindow |-> 0]

\* a list the OpenAI connection test stores (openai.ts 103-140): gpt-4o from
\* the table of context windows, gpt-3.5-turbo-0125 with the default 4096
FETCHED_OPENAI_MODELS ==
  << [id |-> "gpt-4o",             contextWindow |-> 128000],
     [id |-> "gpt-3.5-turbo-0125", contextWindow |-> 4096] >>

\* a model-list preference: "" (never stored), a string JSON.parse rejects,
\* or the JSON text of a model list; the JSON text of a list of plain
\* records parses back to the same list, so it is kept as that list
PrefUnset == [kind |-> "unset", models |-> <<>>]

PrefInvalid == [kind |-> "invalid", models |-> <<>>]

PrefJson(models) == [kind |-> "json", models |-> models]

\* a cache variable: null, or a model list (an empty list is not null)
CacheNull == [isNull |-> TRUE, models |-> <<>>]

CacheOf(models) == [isNull |-> FALSE, models |-> models]

\* getGeminiModels / getOpenAIModels: the value returned
ModelsFrom(cache, stored, fallback) ==
  IF ~cache.isNull THEN cache.models
  ELSE IF stored.kind = "json" THEN stored.models
  ELSE fallback

\* a getter that never fills the cache
CacheAfterGetNoFill(cache, stored) == cache

\* getGeminiModels / getOpenAIModels: the cache they leave behind; a null
\* cache is filled when the preference parses
CacheAfterGet(cache, stored) ==
  IF cache.isNull /\ stored.kind = "json" THEN CacheOf(stored.models)
  ELSE cache

getGeminiModels ==
  ModelsFrom(cachedGeminiModels, geminiModelsPref, FALLBACK_GEMINI_MODELS)

getOpenAIModels ==
  ModelsFrom(cachedOpenAIModels, openaiModelsPref, FALLBACK_OPENAI_MODELS)

getAllModels == getGeminiModels \o getOpenAIModels

\* Array.prototype.find: the first model with the id, or undefined
getModelById(id) ==
  LET hits == {i \in 1..Len(getAllModels) : getAllModels[i].id = id}
  IN IF hits = {} THEN undefinedModel
     ELSE getAllModels[CHOOSE i \in hits : \A j \in hits : i <= j]

\* ---------------------------------------------------------------- estimator
\* the quotient cut off instead of rounded up
estimateTokenCountFloor(text) == Len(text) \div 4

\* Math.ceil(text.length / 4)
estimateTokenCount(text) == (Len(text) + 3) \div 4

\* ------------------------------------------------------------------ sorting
\* the date comparison the other way round: oldest first
CompareDateAscending(a, b) == DateGetTime(a.date) - DateGetTime(b.date)

\* sortSummaries, case "date": most recent first
CompareDate(a, b) == DateGetTime(b.date) - DateGetTime(a.date)

\* sortSummaries, case "alphabetical"
CompareAlphabetical(a, b) == localeCompare(a.content, b.content)

\* the size comparison the other way round: largest first
CompareSizeDescending(a, b) == Len(b.content) - Len(a.content)

\* sortSummaries, case "size": smallest first
CompareSize(a, b) == Len(a.content) - Len(b.content)

Compare(a, b, strategy) ==
  CASE strategy = "date"         -> CompareDate(a, b)
    [] strategy = "alphabetical" -> CompareAlphabetical(a, b)
    [] strategy = "size"         -> CompareSize(a, b)

\* an insertion that puts x in front of the elements it compares equal to
InsertUnstable(sorted, x, strategy) ==
  LET p == Cardinality({i \in 1..Len(sorted) : Compare(sorted[i], x, strategy) < 0})
  IN SubSeq(sorted, 1, p) \o <<x>> \o SubSeq(sorted, p + 1, Len(sorted))

\* one insertion of a stable sort: x goes behind every element that does not
\* sort after it, so elements that compare equal keep their order of arrival
InsertStable(sorted, x, strategy) ==
  LET p == Cardinality({i \in 1..Len(sorted) : Compare(sorted[i], x, strategy) <= 0})
  IN SubSeq(sorted, 1, p) \o <<x>> \o SubSeq(sorted, p + 1, Len(sorted))

\* Array.prototype.sort with a comparator: a stable sort
RECURSIVE ArraySort(_, _)
ArraySort(arr, strategy) ==
  IF arr = <<>> THEN <<>>
  ELSE LET front == ArraySort(SubSeq(arr, 1, Len(arr) - 1), strategy)
       \* the front is sorted once, then the last element is inserted
       IN CHOOSE out \in { InsertStable(f, arr[Len(arr)], strategy) :
                              f \in {front} } : TRUE

\* sorts a copy, the input array is left alone
sortSummaries(list, strategy) == ArraySort(list, strategy)

\* ------------------------------------------------------------------- budget
\* the preference alone, whatever the model
EffectiveMaxPrefOnly(model, maxTokensPref) == maxTokensPref

\* the smaller of the model's context window and the preference; the
\* preference alone when no model is found
EffectiveMax(model, maxTokensPref) ==
  IF model # undefinedModel
    THEN Min2(model.contextWindow, maxTokensPref)
    ELSE maxTokensPref

AvailableTokens(effectiveMax, promptTokenCount) ==
  effectiveMax - promptTokenCount - outputReserve

\* variants of the loop test, as a slip in fitter.ts:52 would leave it
FitsBudgetBeforeAdd(total, summaryTokens, available) ==
  total <= available

FitsBudgetNoRunningTotal(total, summaryTokens, available) ==
  summaryTokens <= available

FitsBudgetStrict(total, summaryTokens, available) ==
  total + summaryTokens < available

FitsBudgetClamped(total, summaryTokens, available) ==
  total + summaryTokens <= (IF available < 0 THEN 0 ELSE available)

\* the test of the for-loop
FitsBudget(total, summaryTokens, available) ==
  total + summaryTokens <= available

\* ------------------------------------------------------------------- inputs
\* the two shortest and the two longest texts
ContentLens == {0, 1, MaxLen - 1, MaxLen}

Contents == {TextOf(n) : n \in ContentLens}

EarlyDate == <<2024, 1, 1>>

Dates == { EarlyDate, <<2024, 6, 1>> }

Strategies == {"date", "alphabetical", "size"}

\* the lists of up to MaxSummaries summaries with the given texts and dates;
\* the summary at input position i carries id i
SummaryListsOver(texts, dates) ==
  UNION { { [i \in 1..n |-> [id |-> i, content |-> f[i][1], date |-> f[i][2]]] :
            f \in [1..n -> texts \X dates] } : n \in 0..MaxSummaries }

SummaryLists == SummaryListsOver(Contents, Dates)

\* three dates in three different orders of year and month
ExampleDates == { <<2024, 1, 1>>, <<2024, 6, 1>>, <<2023, 1, 1>> }

\* texts of one token and of the most tokens
DateContents == {TextOf(n) : n \in {1, MaxLen}}

\* the empty prompt and the longest one
PromptTexts == { [i \in 1..n |-> "p"] : n \in {0, MaxPromptLen} }

\* no id (the current model is used), a known id, an id no model has
ModelIds == {Undefined, "gpt-4o", "no-such-model"}

\* budgets around the output reserve, and one above every context window
\* of the OpenAI models
PrefValues == {outputReserve + k : k \in 0..MaxSlack} \cup {2 * DefaultMaxContextTokens}

EmptyResult ==
  [included |-> <<>>, excluded |-> <<>>, totalTokens |-> 0, maxTokens |-> 0,
   promptTokens |-> 0]

\* the module state and the preferences right after installation
\* (models.ts 75-76, addon/prefs.js 8-9)
ModelsAsInstalled ==
  /\ geminiModelsPref = PrefUnset
  /\ openaiModelsPref = PrefUnset
  /\ cachedGeminiModels = CacheNull
  /\ cachedOpenAIModels = CacheNull

\* values of variables that hold nothing yet
NoCapacity == [canFit |-> 0, total |-> 0, percentage |-> 0]

NoCollection == [kind |-> "null"]

NoOptions == [kind |-> "none"]

NoPrompt == [kind |-> "none"]

NoFitResult == [kind |-> "none"]

NoSelection == [kind |-> "none"]

\* calculateFitCapacity is not called
CapacityIdle ==
  /\ kpc = "idle"
  /\ fitCapacity = NoCapacity

\* summarizeCollection is not called
CollectionIdle ==
  /\ collection = NoCollection
  /\ cpc = "idle"
  /\ stage = "idle"
  /\ errorShown = FALSE
  /\ notified = <<>>
  /\ llmCalls = 0
  /\ notes = 0
  /\ options = NoOptions
  /\ prompt = NoPrompt
  /\ fitResult = NoFitResult

EstimateIdle ==
  /\ estimateArg = <<>>
  /\ estimate = -1

Base64Idle ==
  /\ bytes = <<>>
  /\ bytePos = 0
  /\ base64 = <<>>
  /\ bpc = "idle"

SelectionIdle ==
  /\ currentId = [kind |-> "undefined"]
  /\ availableIds = <<>>
  /\ selection = NoSelection

\* manager.ts: DEFAULT_PROMPTS, by name
DEFAULT_PROMPTS ==
  << "Academic Summary", "Key Points", "Critical Analysis",
     "Literature Review Helper", "Meta-Summary (for collections)",
     "Academic Summary with Metadata", "Annotated Summary" >>

\* a prompt the user wrote
UserPrompt == "My prompt"

PromptNames == {DEFAULT_PROMPTS[k] : k \in 1..Len(DEFAULT_PROMPTS)} \cup {UserPrompt}

\* a library without prompt notes; a note is counted under its name and
\* under whether it carries the tag #zoterolm-prompt
NoPromptNotes == [n \in PromptNames \X BOOLEAN |-> 0]

Invocations == 1..MaxInvocations

\* createDefaultPrompts is not called
PromptsIdle ==
  /\ promptNotes = NoPromptNotes
  /\ invocation = [p \in Invocations |-> [at |-> "idle", k |-> 0]]
  /\ defaultPromptId = <<>>

Handlers == 1..MaxHandlers

\* the ids of the annotations of the attachment, in getAnnotations order
AnnotationIds == {1, 2}

\* calls take the slots in the order in which they are made
Free(h) ==
  /\ handler[h].at = "idle"
  /\ \A g \in 1..(h - 1) : handler[g].at # "idle"

\* a call that has not been made; one that has returned
IdleHandler ==
  [op |-> "none", at |-> "idle", kind |-> "", ids |-> <<>>, ann |-> 0,
   tags |-> <<>>, list |-> <<>>, note |-> 0]

DoneHandler(op) == [IdleHandler EXCEPT !.op = op, !.at = "done"]

\* handleAutoTagNotify has returned at one of its first three lines
RejectedHandler == [IdleHandler EXCEPT !.op = "notify", !.at = "rejected"]

\* no reader function is called
ReaderIdle ==
  /\ enabled = FALSE
  /\ childNotes = <<>>
  /\ annotationTags = [a \in AnnotationIds |-> {}]
  /\ suggestCalls = 0
  /\ handler = [h \in Handlers |-> IdleHandler]

\* a note or an attachment, a regular item without a PDF, one with a PDF
ItemKinds == {"note", "nopdf", "regular"}

\* the content types the summarize dialog offers
ContentTypes == {"text", "html", "pdf"}

\* summarizeSelectedItems is not called
BatchIdle ==
  /\ selectedItems = <<>>
  /\ itemIndex = 1
  /\ successCount = 0
  /\ errorCount = 0
  /\ skippedCount = 0
  /\ contentType = "text"
  /\ spc = "idle"

\* the preference enabledModels: "" (never stored) or the JSON text of a
\* list of ids, kept as that list
IdsUnset == [kind |-> "unset", ids |-> <<>>]

IdsJson(ids) == [kind |-> "json", ids |-> ids]

\* the preference pane is not open
EnabledIdle ==
  /\ checked = {}
  /\ enabledModels = IdsUnset
  /\ enabledResult = <<>>
  /\ epc = "idle"

Request(m, type, pdf) ==
  [modelId |-> m, contentType |-> type, pdfBase64 |-> pdf]

\* callLLM is not called
LlmIdle ==
  /\ request = Request("", Undefined, "")
  /\ providerCalls = <<>>
  /\ lpc = "idle"

OthersIdle ==
  PromptsIdle /\ ReaderIdle /\ BatchIdle /\ EnabledIdle /\ LlmIdle

UtilitiesIdle == EstimateIdle /\ Base64Idle /\ SelectionIdle /\ OthersIdle

\* a single fit call, made directly
NoOtherCalls ==
  /\ pending = <<>>
  /\ returned = <<>>
  /\ CapacityIdle
  /\ CollectionIdle
  /\ UtilitiesIdle

\* metadata.date is read by the "date" case of sortSummaries only, so the
\* dates vary under that strategy and are all the same under the other two
Init ==
  /\ sortStrategy \in Strategies
  /\ summaries \in SummaryLists
  /\ sortStrategy # "date" =>
       \A i \in 1..Len(summaries) : summaries[i].date = EarlyDate
  /\ promptText \in PromptTexts
  /\ modelId \in ModelIds
  /\ maxContextTokens \in PrefValues
  /\ defaultModel = "gemini-1.5-flash"
  /\ pc = "start"
  /\ promptTokens = 0
  /\ availableTokens = 0
  /\ sortedSummaries = <<>>
  /\ idx = 0
  /\ included = <<>>
  /\ excluded = <<>>
  /\ totalTokens = 0
  /\ result = EmptyResult
  /\ ModelsAsInstalled
  /\ NoOtherCalls

\* ------------------------------------------------------------------ actions
getCurrentModel == getModelById(defaultModel)

\* Begin with the running total kept in a variable that outlives the call
BeginKeepTotal ==
  /\ pc = "start"
  /\ LET model == IF modelId # Undefined THEN getModelById(modelId)
                  ELSE getCurrentModel
         effectiveMax == EffectiveMax(model, maxContextTokens)
         pt == estimateTokenCount(promptText)
     IN /\ promptTokens' = pt
        /\ availableTokens' = AvailableTokens(effectiveMax, pt)
  /\ sortedSummaries' = sortSummaries(summaries, sortStrategy)
  /\ included' = <<>>
  /\ excluded' = <<>>
  /\ totalTokens' = totalTokens
  /\ idx' = 1
  /\ pc' = "loop"
  /\ cachedGeminiModels' = CacheAfterGet(cachedGeminiModels, geminiModelsPref)
  /\ cachedOpenAIModels' = CacheAfterGet(cachedOpenAIModels, openaiModelsPref)
  /\ UNCHANGED << inputs, modelPrefs, outside, result >>

\* Begin with the two lists kept in variables that outlive the call
BeginKeepLists ==
  /\ pc = "start"
  /\ LET model == IF modelId # Undefined THEN getModelById(modelId)
                  ELSE getCurrentModel
         effectiveMax == EffectiveMax(model, maxContextTokens)
         pt == estimateTokenCount(promptText)
     IN /\ promptTokens' = pt
        /\ availableTokens' = AvailableTokens(effectiveMax, pt)
  /\ sortedSummaries' = sortSummaries(summaries, sortStrategy)
  /\ included' = included
  /\ excluded' = excluded
  /\ totalTokens' = 0
  /\ idx' = 1
  /\ pc' = "loop"
  /\ cachedGeminiModels' = CacheAfterGet(cachedGeminiModels, geminiModelsPref)
  /\ cachedOpenAIModels' = CacheAfterGet(cachedOpenAIModels, openaiModelsPref)
  /\ UNCHANGED << inputs, modelPrefs, outside, result >>

\* Begin that rejects a negative ceiling (an exception ends the call)
BeginRejectNegative ==
  /\ pc = "start"
  /\ maxContextTokens >= 0
  /\ LET model == IF modelId # Undefined THEN getModelById(modelId)
                  ELSE getCurrentModel
         effectiveMax == EffectiveMax(model, maxContextTokens)
         pt == estimateTokenCount(promptText)
     IN /\ promptTokens' = pt
        /\ availableTokens' = AvailableTokens(effectiveMax, pt)
  /\ sortedSummaries' = sortSummaries(summaries, sortStrategy)
  /\ included' = <<>>
  /\ excluded' = <<>>
  /\ totalTokens' = 0
  /\ idx' = 1
  /\ pc' = "loop"
  /\ cachedGeminiModels' = CacheAfterGet(cachedGeminiModels, geminiModelsPref)
  /\ cachedOpenAIModels' = CacheAfterGet(cachedOpenAIModels, openaiModelsPref)
  /\ UNCHANGED << inputs, modelPrefs, outside, result >>

\* fitter.ts 29-47: model, budget, sort, empty lists
Begin ==
  /\ pc = "start"
  /\ LET model == IF modelId # Undefined THEN getModelById(modelId)
                  ELSE getCurrentModel
         effectiveMax == EffectiveMax(model, maxContextTokens)
         pt == estimateTokenCount(promptText)
     IN /\ promptTokens' = pt
        /\ availableTokens' = AvailableTokens(effectiveMax, pt)
  /\ sortedSummaries' = sortSummaries(summaries, sortStrategy)
  /\ included' = <<>>
  /\ excluded' = <<>>
  /\ totalTokens' = 0
  /\ idx' = 1
  /\ pc' = "loop"
  /\ cachedGeminiModels' = CacheAfterGet(cachedGeminiModels, geminiModelsPref)
  /\ cachedOpenAIModels' = CacheAfterGet(cachedOpenAIModels, openaiModelsPref)
  /\ UNCHANGED << inputs, modelPrefs, outside, result >>

\* LoopInclude with "totalTokens = summaryTokens" for "totalTokens += ..."
LoopIncludeAssignTotal ==
  /\ pc = "loop"
  /\ idx <= Len(sortedSummaries)
  /\ LET summary == sortedSummaries[idx]
         summaryTokens == estimateTokenCount(summary.content)
     IN /\ FitsBudget(totalTokens, summaryTokens, availableTokens)
        /\ included' = Append(included, summary)
        /\ totalTokens' = summaryTokens
  /\ idx' = idx + 1
  /\ UNCHANGED << inputs, modelPrefs, modelCache, outside, pc, promptTokens, availableTokens, sortedSummaries,
                  excluded, result >>

\* LoopInclude with unshift for push: the summary goes to the front
LoopIncludeAtFront ==
  /\ pc = "loop"
  /\ idx <= Len(sortedSummaries)
  /\ LET summary == sortedSummaries[idx]
         summaryTokens == estimateTokenCount(summary.content)
     IN /\ FitsBudget(totalTokens, summaryTokens, availableTokens)
        /\ included' = <<summary>> \o included
        /\ totalTokens' = totalTokens + summaryTokens
  /\ idx' = idx + 1
  /\ UNCHANGED << inputs, modelPrefs, modelCache, outside, pc, promptTokens, availableTokens, sortedSummaries,
                  excluded, result >>

\* fitter.ts 49-54: one iteration of the for-loop, the summary fits
LoopInclude ==
  /\ pc = "loop"
  /\ idx <= Len(sortedSummaries)
  /\ LET summary == sortedSummaries[idx]
         summaryTokens == estimateTokenCount(summary.content)
     IN /\ FitsBudget(totalTokens, summaryTokens, availableTokens)
        /\ included' = Append(included, summary)
        /\ totalTokens' = totalTokens + summaryTokens
  /\ idx' = idx + 1
  /\ UNCHANGED << inputs, modelPrefs, modelCache, outside, pc, promptTokens, availableTokens, sortedSummaries,
                  excluded, result >>

\* LoopExclude without the push to excluded
LoopExcludeDropped ==
  /\ pc = "loop"
  /\ idx <= Len(sortedSummaries)
  /\ LET summary == sortedSummaries[idx]
         summaryTokens == estimateTokenCount(summary.content)
     IN ~FitsBudget(totalTokens, summaryTokens, availableTokens)
  /\ idx' = idx + 1
  /\ UNCHANGED << inputs, modelPrefs, modelCache, outside, pc, promptTokens, availableTokens, sortedSummaries,
                  included, excluded, totalTokens, result >>

\* LoopExclude with a break: the walk stops at the first summary that does
\* not fit and the rest of the list is excluded with it
LoopExcludeBreak ==
  /\ pc = "loop"
  /\ idx <= Len(sortedSummaries)
  /\ LET summary == sortedSummaries[idx]
         summaryTokens == estimateTokenCount(summary.content)
     IN /\ ~FitsBudget(totalTokens, summaryTokens, availableTokens)
        /\ excluded' = excluded \o SubSeq(sortedSummaries, idx,
                                          Len(sortedSummaries))
  /\ idx' = Len(sortedSummaries) + 1
  /\ UNCHANGED << inputs, modelPrefs, modelCache, outside, pc, promptTokens, availableTokens, sortedSummaries,
                  included, totalTokens, result >>

\* fitter.ts 49-57: one iteration of the for-loop, the summary does not fit
LoopExclude ==
  /\ pc = "loop"
  /\ idx <= Len(sortedSummaries)
  /\ LET summary == sortedSummaries[idx]
         summaryTokens == estimateTokenCount(summary.content)
     IN /\ ~FitsBudget(totalTokens, summaryTokens, availableTokens)
        /\ excluded' = Append(excluded, summary)
  /\ idx' = idx + 1
  /\ UNCHANGED << inputs, modelPrefs, modelCache, outside, pc, promptTokens, availableTokens, sortedSummaries,
                  included, totalTokens, result >>

\* fitter.ts 60-66: the loop is over, the FitResult is returned
Return ==
  /\ pc = "loop"
  /\ idx > Len(sortedSummaries)
  /\ result' = [included |-> included, excluded |-> excluded,
                totalTokens |-> totalTokens, maxTokens |-> availableTokens,
                promptTokens |-> promptTokens]
  /\ pc' = "done"
  /\ UNCHANGED << inputs, modelPrefs, modelCache, outside,
                  promptTokens, availableTokens, sortedSummaries, idx,
                  included, excluded, totalTokens >>

Next == Begin \/ LoopInclude \/ LoopExclude \/ Return

Spec == Init /\ [][Next]_vars

\* ------------------------------------------------------------ several calls
\* the arguments of the call in progress
CurrentArgs ==
  [summaries |-> summaries, promptText |-> promptText, modelId |-> modelId,
   sortStrategy |-> sortStrategy]

\* the next call site calls fitSummariesInContext (summarizeCollection.ts 61
\* and 91): the call is synchronous, so it starts when the one before has
\* returned; the module state and the preferences are what that call left
NextCall ==
  /\ pc = "done"
  /\ pending # <<>>
  /\ returned' = Append(returned, [args |-> CurrentArgs, result |-> result])
  /\ summaries' = Head(pending).summaries
  /\ promptText' = Head(pending).promptText
  /\ modelId' = Head(pending).modelId
  /\ sortStrategy' = Head(pending).sortStrategy
  /\ pending' = Tail(pending)
  /\ pc' = "start"
  /\ UNCHANGED << maxContextTokens, defaultModel, promptTokens,
                  availableTokens, sortedSummaries, idx, included, excluded,
                  totalTokens, result, modelPrefs, modelCache, callers,
                  utilities >>

NextCalls == Next \/ NextCall

\* the summaries with the given texts, in this order
ListOf(texts) ==
  [i \in 1..Len(texts) |-> [id |-> i, content |-> texts[i], date |-> EarlyDate]]

CallSummaryLists ==
  { ListOf(<<>>), ListOf(<<TextOf(1)>>), ListOf(<<TextOf(MaxLen), TextOf(1)>>),
    ListOf(<<TextOf(1), TextOf(1), TextOf(MaxLen)>>) }

\* the current model, or a model that only the fetched OpenAI list has
CallArgs ==
  [summaries : CallSummaryLists, promptText : {<<>>},
   modelId : {Undefined, "gpt-3.5-turbo-0125"}, sortStrategy : {"size", "date"}]

RECURSIVE SeqsUpTo(_, _)
SeqsUpTo(S, n) ==
  IF n = 0 THEN {<<>>}
  ELSE LET shorter == SeqsUpTo(S, n - 1)
       IN shorter \cup {Append(q, x) : q \in shorter, x \in S}

\* a budget for one token, one for all the texts of a call, a large one
CallPrefValues ==
  {outputReserve + 1, outputReserve + MaxSlack + 1, 2 * DefaultMaxContextTokens}

\* up to MaxCalls calls; the OpenAI list is not stored, stored but not yet
\* read (after a restart), stored and cached (after a connection test), or
\* stored as text that does not parse
InitCalls ==
  /\ \E a \in CallArgs :
       /\ summaries = a.summaries
       /\ promptText = a.promptText
       /\ modelId = a.modelId
       /\ sortStrategy = a.sortStrategy
  /\ pending \in SeqsUpTo(CallArgs, MaxCalls - 1)
  /\ returned = <<>>
  /\ CapacityIdle
  /\ CollectionIdle
  /\ UtilitiesIdle
  /\ maxContextTokens \in CallPrefValues
  /\ defaultModel = "gemini-1.5-flash"
  /\ geminiModelsPref = PrefUnset
  /\ cachedGeminiModels = CacheNull
  /\ \E installed \in
         { << PrefUnset, CacheNull >>,
           << PrefInvalid, CacheNull >>,
           << PrefJson(FETCHED_OPENAI_MODELS), CacheNull >>,
           << PrefJson(FETCHED_OPENAI_MODELS), CacheOf(FETCHED_OPENAI_MODELS) >> } :
       /\ openaiModelsPref = installed[1]
       /\ cachedOpenAIModels = installed[2]
  /\ pc = "start"
  /\ promptTokens = 0
  /\ availableTokens = 0
  /\ sortedSummaries = <<>>
  /\ idx = 0
  /\ included = <<>>
  /\ excluded = <<>>
  /\ totalTokens = 0
  /\ result = EmptyResult

SpecCalls == InitCalls /\ [][NextCalls]_vars

\* calls with the default strategy "date" over the three example dates,
\* with the empty prompt and the current model
InitDate ==
  /\ sortStrategy = "date"
  /\ summaries \in SummaryListsOver(DateContents, ExampleDates)
  /\ promptText = <<>>
  /\ modelId = Undefined
  /\ maxContextTokens \in PrefValues
  /\ defaultModel = "gemini-1.5-flash"
  /\ pc = "start"
  /\ promptTokens = 0
  /\ availableTokens = 0
  /\ sortedSummaries = <<>>
  /\ idx = 0
  /\ included = <<>>
  /\ excluded = <<>>
  /\ totalTokens = 0
  /\ result = EmptyResult
  /\ ModelsAsInstalled
  /\ NoOtherCalls

SpecDate == InitDate /\ [][Next]_vars

\* ---------------------------------------------------------------- edge inputs
\* the empty text and a one-character text
EdgeContents == {TextOf(0), TextOf(1)}

\* ceilings that leave no budget: negative, zero, one below the output
\* reserve, the output reserve itself
EdgeCeilings == {-1, 0, outputReserve - 1, outputReserve}

InitEdge ==
  /\ sortStrategy \in Strategies
  /\ summaries \in SummaryListsOver(EdgeContents, {EarlyDate})
  /\ promptText \in PromptTexts
  /\ modelId \in ModelIds
  /\ maxContextTokens \in EdgeCeilings
  /\ defaultModel = "gemini-1.5-flash"
  /\ pc = "start"
  /\ promptTokens = 0
  /\ availableTokens = 0
  /\ sortedSummaries = <<>>
  /\ idx = 0
  /\ included = <<>>
  /\ excluded = <<>>
  /\ totalTokens = 0
  /\ result = EmptyResult
  /\ ModelsAsInstalled
  /\ NoOtherCalls

\* the call is synchronous: once started it runs to its return
SpecEdge == InitEdge /\ [][Next]_vars /\ WF_vars(Next)

\* --------------------------------------------------------------- capacity
\* Math.round of num / den for num >= 0 and den > 0: the nearest integer,
\* a half goes up
MathRound(num, den) == (2 * num + den) \div (2 * den)

\* the state of a fit call before it is made
FitNotCalled ==
  /\ pc = "idle"
  /\ promptTokens = 0
  /\ availableTokens = 0
  /\ sortedSummaries = <<>>
  /\ idx = 0
  /\ included = <<>>
  /\ excluded = <<>>
  /\ totalTokens = 0
  /\ result = EmptyResult

\* fitter.ts 109-114: calculateFitCapacity calls fitSummariesInContext with
\* its three arguments; the strategy is the default, "date"
CapacityCall ==
  /\ kpc = "start"
  /\ sortStrategy' = "date"
  /\ pc' = "start"
  /\ kpc' = "fitting"
  /\ UNCHANGED << summaries, promptText, modelId, maxContextTokens,
                  defaultModel, fitLocals, result, modelPrefs, modelCache,
                  pending, returned, fitCapacity, collectionVars, utilities >>

\* the percentage cut off instead of rounded
CapacityReturnFloor ==
  /\ kpc = "fitting"
  /\ pc = "done"
  /\ fitCapacity' =
       [canFit |-> Len(result.included),
        total |-> Len(summaries),
        percentage |-> IF Len(summaries) > 0
                         THEN (Len(result.included) * 100) \div Len(summaries)
                         ELSE 100]
  /\ kpc' = "done"
  /\ UNCHANGED << inputs, pc, fitLocals, result, modelPrefs, modelCache,
                  pending, returned, collectionVars, utilities >>

\* fitter.ts 116-123: the three numbers
CapacityReturn ==
  /\ kpc = "fitting"
  /\ pc = "done"
  /\ fitCapacity' =
       [canFit |-> Len(result.included),
        total |-> Len(summaries),
        percentage |-> IF Len(summaries) > 0
                         THEN MathRound(Len(result.included) * 100, Len(summaries))
                         ELSE 100]
  /\ kpc' = "done"
  /\ UNCHANGED << inputs, pc, fitLocals, result, modelPrefs, modelCache,
                  pending, returned, collectionVars, utilities >>

\* texts of one and of two tokens
CapacityContents == {TextOf(1), TextOf(MaxLen)}

\* calculateFitCapacity called with any list, prompt text and model id
InitCapacity ==
  /\ summaries \in SummaryListsOver(CapacityContents, {EarlyDate})
  /\ promptText \in PromptTexts
  /\ modelId \in ModelIds
  /\ sortStrategy = "date"
  /\ maxContextTokens \in PrefValues
  /\ defaultModel = "gemini-1.5-flash"
  /\ FitNotCalled
  /\ ModelsAsInstalled
  /\ pending = <<>>
  /\ returned = <<>>
  /\ kpc = "start"
  /\ fitCapacity = NoCapacity
  /\ CollectionIdle
  /\ UtilitiesIdle

NextCapacity == CapacityCall \/ Next \/ CapacityReturn

SpecCapacity == InitCapacity /\ [][NextCapacity]_vars

\* ---------------------------------------------------------- ProgressTracker
\* progress.ts 52-64
STAGE_PROGRESS ==
  [idle |-> 0, preparing |-> 5, extracting |-> 15, encoding |-> 25,
   calling_api |-> 35, waiting |-> 50, receiving |-> 70, processing |-> 85,
   saving |-> 95, complete |-> 100, error |-> 0]

\* a progress value is a number of the form num / den
Whole(p) == << p, 1 >>

\* x <= y for two progress values
AtMost(x, y) == x[1] * y[2] <= y[1] * x[2]

\* progress.ts 169-178: reset starts with progress 0
reset == << Whole(0) >>

\* progress.ts 121-132: setStage sets the progress of the stage
setStage(log, st) == Append(log, Whole(STAGE_PROGRESS[st]))

\* progress.ts 137-143: setProgress clamps the value to 0..100
setProgress(log, num, den) ==
  Append(log, IF num > 100 * den THEN Whole(100)
              ELSE IF num < 0 THEN Whole(0)
              ELSE << num, den >>)

\* progress.ts 156-164: setError leaves the progress as it is
setError(log) == Append(log, log[Len(log)])

\* ------------------------------------------------------ summarizeCollection
\* a selected collection with its regular items and their summaries
Collection(n, list) ==
  [kind |-> "collection", regularItems |-> n, summaries |-> list]

\* no collection selected, a collection without regular items (it has no
\* summaries: getSummariesInCollection reads them from the regular items),
\* a collection whose items have the given summaries
Collections ==
  {NoCollection, Collection(0, <<>>)}
    \cup {Collection(1, list) :
            list \in SummaryListsOver(CapacityContents, {EarlyDate})}

\* the model ids the dialog offers
DialogModelIds == {"gpt-4o", "gemini-1.5-flash"}

DialogCancelled == [kind |-> "null"]

Options(m, p) == [kind |-> "options", modelId |-> m, promptId |-> p]

PromptNotFound == [kind |-> "undefined"]

Prompt(content) == [kind |-> "prompt", content |-> content]

\* summarizeCollection.ts 17-43: reset the tracker, read the selection, stop
\* with an error shown when there is no collection or no regular item in it
StartCollection ==
  /\ cpc = "start"
  /\ IF collection = NoCollection
       THEN /\ stage' = "idle"
            /\ notified' = reset
            /\ errorShown' = TRUE
            /\ cpc' = "ended"
       ELSE IF collection.regularItems = 0
              THEN /\ stage' = "preparing"
                   /\ notified' = setStage(reset, "preparing")
                   /\ errorShown' = TRUE
                   /\ cpc' = "ended"
              ELSE /\ stage' = "extracting"
                   /\ notified' =
                        setStage(setStage(reset, "preparing"), "extracting")
                   /\ errorShown' = errorShown
                   /\ cpc' = "loading"
  /\ UNCHANGED << inputs, pc, fitLocals, result, modelPrefs, modelCache,
                  pending, returned, capacityVars, collection, llmCalls,
                  notes, options, prompt, fitResult, utilities >>

\* summarizeCollection.ts 43-61: the summaries are loaded; none: error;
\* some: the default prompt is read and calculateFitCapacity is called
LoadSummaries ==
  /\ cpc = "loading"
  /\ summaries' = collection.summaries
  /\ IF collection.summaries = <<>>
       THEN /\ errorShown' = TRUE
            /\ stage' = "error"
            /\ notified' = setError(notified)
            /\ cpc' = "ended"
            /\ UNCHANGED << promptText, modelId, kpc >>
       ELSE /\ \E content \in PromptTexts : promptText' = content
            /\ modelId' = Undefined
            /\ kpc' = "start"
            /\ cpc' = "capacity"
            /\ UNCHANGED << errorShown, stage, notified >>
  /\ UNCHANGED << sortStrategy, maxContextTokens, defaultModel, pc, fitLocals,
                  result, modelPrefs, modelCache, pending, returned,
                  fitCapacity, collection, llmCalls, notes, options, prompt,
                  fitResult, utilities >>

\* summarizeCollection.ts 68-96: the dialog returns; cancelled: the tracker
\* is reset; prompt not found: error; else fitSummariesInContext is called
\* with the prompt's text and the chosen model
Dialog ==
  /\ cpc = "capacity"
  /\ kpc = "done"
  /\ \/ /\ options' = DialogCancelled
        /\ stage' = "idle"
        /\ notified' = reset
        /\ cpc' = "ended"
        /\ UNCHANGED << prompt, errorShown, promptText, modelId, sortStrategy,
                        pc >>
     \/ /\ \E m \in DialogModelIds : options' = Options(m, "missing")
        /\ prompt' = PromptNotFound
        /\ errorShown' = TRUE
        /\ stage' = "error"
        /\ notified' = setError(notified)
        /\ cpc' = "ended"
        /\ UNCHANGED << promptText, modelId, sortStrategy, pc >>
     \/ \E m \in DialogModelIds, content \in PromptTexts :
          /\ options' = Options(m, "chosen")
          /\ prompt' = Prompt(content)
          /\ stage' = "processing"
          /\ notified' = setStage(notified, "processing")
          /\ promptText' = content
          /\ modelId' = m
          /\ sortStrategy' = "date"
          /\ pc' = "start"
          /\ cpc' = "fit"
          /\ UNCHANGED errorShown
  /\ UNCHANGED << summaries, maxContextTokens, defaultModel, fitLocals,
                  result, modelPrefs, modelCache, pending, returned,
                  capacityVars, collection, llmCalls, notes, fitResult,
                  utilities >>

\* the LLM called whatever the fit returned
FitReturnNoCheck ==
  /\ cpc = "fit"
  /\ pc = "done"
  /\ fitResult' = result
  /\ stage' = "waiting"
  /\ notified' = setStage(setStage(notified, "calling_api"), "waiting")
  /\ llmCalls' = llmCalls + 1
  /\ cpc' = "llm"
  /\ UNCHANGED errorShown
  /\ UNCHANGED << inputs, pc, fitLocals, result, modelPrefs, modelCache,
                  pending, returned, capacityVars, collection, notes, options,
                  prompt, utilities >>

\* summarizeCollection.ts 91-125 and 145-149: the fit has returned; nothing
\* included: the error is thrown and caught; else the LLM is called
FitReturn ==
  /\ cpc = "fit"
  /\ pc = "done"
  /\ fitResult' = result
  /\ IF Len(result.included) = 0
       THEN /\ stage' = "error"
            /\ notified' = setError(notified)
            /\ errorShown' = TRUE
            /\ cpc' = "ended"
            /\ UNCHANGED llmCalls
       ELSE /\ stage' = "waiting"
            /\ notified' =
                 setStage(setStage(notified, "calling_api"), "waiting")
            /\ llmCalls' = llmCalls + 1
            /\ cpc' = "llm"
            /\ UNCHANGED errorShown
  /\ UNCHANGED << inputs, pc, fitLocals, result, modelPrefs, modelCache,
                  pending, returned, capacityVars, collection, notes, options,
                  prompt, utilities >>

\* summarizeCollection.ts 121-131 and 145-149: callLLM resolves or rejects
LLMResponse ==
  /\ cpc = "llm"
  /\ \/ /\ stage' = "saving"
        /\ notified' = setStage(setStage(notified, "receiving"), "saving")
        /\ cpc' = "save"
        /\ UNCHANGED errorShown
     \/ /\ stage' = "error"
        /\ notified' = setError(notified)
        /\ errorShown' = TRUE
        /\ cpc' = "ended"
  /\ UNCHANGED << inputs, pc, fitLocals, result, modelPrefs, modelCache,
                  pending, returned, capacityVars, collection, llmCalls,
                  notes, options, prompt, fitResult, utilities >>

\* summarizeCollection.ts 132-149: note.saveTx resolves or rejects
SaveNote ==
  /\ cpc = "save"
  /\ \/ /\ notes' = notes + 1
        /\ stage' = "complete"
        /\ notified' = setStage(notified, "complete")
        /\ UNCHANGED errorShown
     \/ /\ stage' = "error"
        /\ notified' = setError(notified)
        /\ errorShown' = TRUE
        /\ UNCHANGED notes
  /\ cpc' = "ended"
  /\ UNCHANGED << inputs, pc, fitLocals, result, modelPrefs, modelCache,
                  pending, returned, capacityVars, collection, llmCalls,
                  options, prompt, fitResult, utilities >>

\* summarizeCollection is called with any selection
InitCollection ==
  /\ collection \in Collections
  /\ cpc = "start"
  /\ stage = "idle"
  /\ errorShown = FALSE
  /\ notified = <<>>
  /\ llmCalls = 0
  /\ notes = 0
  /\ options = NoOptions
  /\ prompt = NoPrompt
  /\ fitResult = NoFitResult
  /\ summaries = <<>>
  /\ promptText = <<>>
  /\ modelId = Undefined
  /\ sortStrategy = "date"
  /\ maxContextTokens \in PrefValues
  /\ defaultModel = "gemini-1.5-flash"
  /\ FitNotCalled
  /\ ModelsAsInstalled
  /\ pending = <<>>
  /\ returned = <<>>
  /\ CapacityIdle
  /\ UtilitiesIdle

NextCollection ==
  \/ StartCollection
  \/ LoadSummaries
  \/ NextCapacity
  \/ Dialog
  \/ FitReturn
  \/ LLMResponse
  \/ SaveNote

SpecCollection == InitCollection /\ [][NextCollection]_vars

\* ------------------------------------------------------------- utilities
\* no fit call, no caller of one
FitterIdle ==
  /\ summaries = <<>>
  /\ promptText = <<>>
  /\ modelId = Undefined
  /\ sortStrategy = "date"
  /\ maxContextTokens = DefaultMaxContextTokens
  /\ defaultModel = "gemini-1.5-flash"
  /\ FitNotCalled
  /\ ModelsAsInstalled
  /\ pending = <<>>
  /\ returned = <<>>
  /\ CapacityIdle
  /\ CollectionIdle

\* ----- estimateTokenCount
EstimateTexts == {TextOf(n) : n \in 0..MaxTextLen}

InitEstimate ==
  /\ estimateArg \in EstimateTexts
  /\ estimate = -1
  /\ FitterIdle
  /\ Base64Idle
  /\ SelectionIdle
  /\ OthersIdle

\* glossary.ts 1020-1022: the call returns
EstimateTokens ==
  /\ estimate = -1
  /\ estimate' = estimateTokenCount(estimateArg)
  /\ UNCHANGED << inputs, pc, fitLocals, result, modelPrefs, modelCache,
                  pending, returned, callers, others, estimateArg, base64Vars,
                  selectionVars >>

SpecEstimate == InitEstimate /\ [][EstimateTokens]_vars

\* ----- resolveSelection
\* a stored id: null, undefined or a string
NullId == [kind |-> "null"]

UndefinedId == [kind |-> "undefined"]

StringId(v) == [kind |-> "string", value |-> v]

\* JavaScript truthiness of a stored id: a non-empty string
Truthy(id) == id.kind = "string" /\ id.value # ""

\* Array.prototype.includes
Includes(arr, v) == \E k \in 1..Len(arr) : arr[k] = v

\* the stored id kept whether it is available or not
resolveSelectionKeepStored(current, available) ==
  IF Len(available) = 0 THEN [resolved |-> "", changed |-> FALSE]
  ELSE IF Truthy(current)
         THEN [resolved |-> current.value, changed |-> FALSE]
         ELSE [resolved |-> available[1], changed |-> TRUE]

\* markdown.ts 184-197
resolveSelection(current, available) ==
  IF Len(available) = 0 THEN [resolved |-> "", changed |-> FALSE]
  ELSE IF Truthy(current) /\ Includes(available, current.value)
         THEN [resolved |-> current.value, changed |-> FALSE]
         ELSE [resolved |-> available[1], changed |-> TRUE]

\* the ids that are on offer; the empty string is a string like any other
SelectionIds == {"", "a", "b"}

\* null, undefined, the ids on offer, an id that is never on offer
CurrentIds ==
  {NullId, UndefinedId} \cup {StringId(v) : v \in SelectionIds \cup {"c"}}

AvailableIdLists == UNION {[1..n -> SelectionIds] : n \in 0..MaxIds}

InitSelection ==
  /\ currentId \in CurrentIds
  /\ availableIds \in AvailableIdLists
  /\ selection = NoSelection
  /\ FitterIdle
  /\ EstimateIdle
  /\ Base64Idle
  /\ OthersIdle

\* the call returns
Resolve ==
  /\ selection = NoSelection
  /\ selection' = resolveSelection(currentId, availableIds)
  /\ UNCHANGED << inputs, pc, fitLocals, result, modelPrefs, modelCache,
                  pending, returned, callers, others, estimateVars, base64Vars,
                  currentId, availableIds >>

SpecSelection == InitSelection /\ [][Resolve]_vars

\* ----- uint8ArrayToBase64
base64abc ==
  << "A", "B", "C", "D", "E", "F", "G", "H",
     "I", "J", "K", "L", "M", "N", "O", "P",
     "Q", "R", "S", "T", "U", "V", "W", "X",
     "Y", "Z", "a", "b", "c", "d", "e", "f",
     "g", "h", "i", "j", "k", "l", "m", "n",
     "o", "p", "q", "r", "s", "t", "u", "v",
     "w", "x", "y", "z", "0", "1", "2", "3",
     "4", "5", "6", "7", "8", "9", "+", "/" >>

RECURSIVE Pow2(_)
Pow2(k) == IF k = 0 THEN 1 ELSE 2 * Pow2(k - 1)

\* x << k, for a byte x and k <= 16 (no bit reaches the sign bit)
ShiftLeft(x, k) == x * Pow2(k)

\* x >> k, for x >= 0
ShiftRight(x, k) == x \div Pow2(k)

\* x | y, bit by bit, for x, y >= 0
RECURSIVE BitOr(_, _)
BitOr(x, y) ==
  IF x = 0 THEN y
  ELSE IF y = 0 THEN x
  ELSE (IF x % 2 = 1 \/ y % 2 = 1 THEN 1 ELSE 0) + 2 * BitOr(x \div 2, y \div 2)

\* x & y, bit by bit, for x, y >= 0
RECURSIVE BitAnd(_, _)
BitAnd(x, y) ==
  IF x = 0 \/ y = 0 THEN 0
  ELSE (IF x % 2 = 1 /\ y % 2 = 1 THEN 1 ELSE 0) + 2 * BitAnd(x \div 2, y \div 2)

\* base64abc[(n >> k) & 63]; a JavaScript string is indexed from 0
Sextet(n, k) == base64abc[BitAnd(ShiftRight(n, k), 63) + 1]

\* bytes[i] for the JavaScript index i
ByteAt(k) == bytes[k + 1]

\* part_005 144-151: one turn of the for-loop, three bytes to four characters
EncodeTriple ==
  /\ bpc = "loop"
  /\ bytePos + 2 < Len(bytes)
  /\ LET n == BitOr(BitOr(ShiftLeft(ByteAt(bytePos), 16),
                          ShiftLeft(ByteAt(bytePos + 1), 8)),
                    ByteAt(bytePos + 2))
     IN base64' = base64 \o << Sextet(n, 18), Sextet(n, 12), Sextet(n, 6),
                               Sextet(n, 0) >>
  /\ bytePos' = bytePos + 3
  /\ UNCHANGED << inputs, pc, fitLocals, result, modelPrefs, modelCache,
                  pending, returned, callers, others, estimateVars, selectionVars,
                  bytes, bpc >>

\* one trailing byte padded with a single "="
EncodeTailSinglePad ==
  /\ bpc = "loop"
  /\ ~(bytePos + 2 < Len(bytes))
  /\ LET remaining == Len(bytes) - bytePos
     IN IF remaining = 1
          THEN LET n == ShiftLeft(ByteAt(bytePos), 16)
               IN base64' = base64 \o << Sextet(n, 18), Sextet(n, 12), "=" >>
          ELSE IF remaining = 2
            THEN LET n == BitOr(ShiftLeft(ByteAt(bytePos), 16),
                                ShiftLeft(ByteAt(bytePos + 1), 8))
                 IN base64' = base64 \o << Sextet(n, 18), Sextet(n, 12),
                                           Sextet(n, 6), "=" >>
            ELSE base64' = base64
  /\ bpc' = "done"
  /\ UNCHANGED << inputs, pc, fitLocals, result, modelPrefs, modelCache,
                  pending, returned, callers, others, estimateVars, selectionVars,
                  bytes, bytePos >>

\* part_005 153-167: the loop is over; the remaining one or two bytes and
\* the padding; the string is returned
EncodeTail ==
  /\ bpc = "loop"
  /\ ~(bytePos + 2 < Len(bytes))
  /\ LET remaining == Len(bytes) - bytePos
     IN IF remaining = 1
          THEN LET n == ShiftLeft(ByteAt(bytePos), 16)
               IN base64' = base64 \o << Sextet(n, 18), Sextet(n, 12), "=", "=" >>
          ELSE IF remaining = 2
            THEN LET n == BitOr(ShiftLeft(ByteAt(bytePos), 16),
                                ShiftLeft(ByteAt(bytePos + 1), 8))
                 IN base64' = base64 \o << Sextet(n, 18), Sextet(n, 12),
                                           Sextet(n, 6), "=" >>
            ELSE base64' = base64
  /\ bpc' = "done"
  /\ UNCHANGED << inputs, pc, fitLocals, result, modelPrefs, modelCache,
                  pending, returned, callers, others, estimateVars, selectionVars,
                  bytes, bytePos >>

\* bytes with no bit, every bit, the top bits and mixed bits set
ByteValues == {0, 77, 251, 255}

ByteArrays == UNION {[1..n -> ByteValues] : n \in 0..MaxBytes}

InitBase64 ==
  /\ bytes \in ByteArrays
  /\ bytePos = 0
  /\ base64 = <<>>
  /\ bpc = "loop"
  /\ FitterIdle
  /\ EstimateIdle
  /\ SelectionIdle
  /\ OthersIdle

NextBase64 == EncodeTriple \/ EncodeTail

SpecBase64 == InitBase64 /\ [][NextBase64]_vars

\* ------------------------------------------------------------ prompt notes
\* nothing of the fitter, its callers or the pure functions is running
FittingIdle == FitterIdle /\ EstimateIdle /\ Base64Idle /\ SelectionIdle

\* what the prompt manager leaves alone
exceptPrompts == << fitting, readerVars, batchVars, enabledVars, llmVars >>

\* the tagged notes a search for #zoterolm-prompt finds
TaggedNotes ==
  {n \in PromptNames : promptNotes[<< n, TRUE >>] > 0}

\* manager.ts 323-324 (hooks.ts 51 and 161-162): createDefaultPrompts is
\* called and awaits getAllPrompts
InvokeCreateDefaults(p) ==
  /\ invocation[p].at = "idle"
  /\ invocation' = [invocation EXCEPT ![p].at = "search"]
  /\ UNCHANGED << promptNotes, defaultPromptId, exceptPrompts >>

\* manager.ts 324-337 and 487-499: the search returns; prompts exist: return;
\* none: the first default prompt's note is built and its save awaited
SearchReturns(p) ==
  /\ invocation[p].at = "search"
  /\ IF TaggedNotes # {}
       THEN invocation' = [invocation EXCEPT ![p].at = "done"]
       ELSE invocation' = [invocation EXCEPT ![p] = [at |-> "save", k |-> 1]]
  /\ UNCHANGED << promptNotes, defaultPromptId, exceptPrompts >>

\* manager.ts 499-503: the note is saved; the tag is added and the second
\* save awaited
PromptSaved(p) ==
  /\ invocation[p].at = "save"
  /\ promptNotes' =
       [promptNotes EXCEPT ![<< DEFAULT_PROMPTS[invocation[p].k], FALSE >>] = @ + 1]
  /\ invocation' = [invocation EXCEPT ![p].at = "tag"]
  /\ UNCHANGED << defaultPromptId, exceptPrompts >>

\* manager.ts 503-511 and 334-348: the tagged note is saved; the loop goes
\* on to the next default prompt, or the first id is stored and the call
\* returns
PromptTagged(p) ==
  /\ invocation[p].at = "tag"
  /\ promptNotes' =
       [promptNotes EXCEPT ![<< DEFAULT_PROMPTS[invocation[p].k], FALSE >>] = @ - 1,
                           ![<< DEFAULT_PROMPTS[invocation[p].k], TRUE >>] = @ + 1]
  /\ IF invocation[p].k < Len(DEFAULT_PROMPTS)
       THEN /\ invocation' = [invocation EXCEPT ![p] = [at |-> "save", k |-> @.k + 1]]
            /\ UNCHANGED defaultPromptId
       ELSE /\ invocation' = [invocation EXCEPT ![p].at = "done"]
            /\ defaultPromptId' = << p >>
  /\ UNCHANGED exceptPrompts

\* a new library, or one that holds a prompt of the user
InitPrompts ==
  /\ \/ promptNotes = NoPromptNotes
     \/ promptNotes = [NoPromptNotes EXCEPT ![<< UserPrompt, TRUE >>] = 1]
  /\ invocation = [p \in Invocations |-> [at |-> "idle", k |-> 0]]
  /\ defaultPromptId = <<>>
  /\ FittingIdle
  /\ ReaderIdle
  /\ BatchIdle
  /\ EnabledIdle
  /\ LlmIdle

NextPrompts ==
  \E p \in Invocations :
    \/ InvokeCreateDefaults(p)
    \/ SearchReturns(p)
    \/ PromptSaved(p)
    \/ PromptTagged(p)

SpecPrompts == InitPrompts /\ [][NextPrompts]_vars

\* ------------------------------------------------------------ reader notes
\* what the reader modules leave alone
exceptReader == << fitting, promptVars, batchVars, enabledVars, llmVars >>

\* outline.ts, glossary.ts, sectionSummaries.ts: OUTLINE_TAG and TAG
ReaderKinds ==
  {"#zoterolm-outline", "#zoterolm-glossary", "#zoterolm-section-summaries"}

SUGGESTIONS_TAG == "#zoterolm-tag-suggestions"

APPLIED_TAG == "#zoterolm-autotagged"

\* findNote / findOutlineNote / findSuggestionsNote: the first child note
\* that carries the tag, 0 for null
FindNote(kind) ==
  LET hits == {n \in 1..Len(childNotes) : childNotes[n].kind = kind}
  IN IF hits = {} THEN 0 ELSE CHOOSE n \in hits : \A m \in hits : n <= m

\* autotag.ts 665-682: getSuggestionsForItem
StoredSuggestions ==
  IF FindNote(SUGGESTIONS_TAG) = 0 THEN <<>>
  ELSE childNotes[FindNote(SUGGESTIONS_TAG)].list

\* Array.prototype.filter on annotationId !== id
RECURSIVE Without(_, _)
Without(list, id) ==
  IF list = <<>> THEN <<>>
  ELSE IF Head(list).annotationId = id THEN Without(Tail(list), id)
  ELSE << Head(list) >> \o Without(Tail(list), id)

\* Array.prototype.some on annotationId === id
HasSuggestionFor(list, id) ==
  \E k \in 1..Len(list) : list[k].annotationId = id

\* Array.prototype.find on annotationId === id
SuggestionFor(list, id) ==
  list[CHOOSE k \in 1..Len(list) :
         /\ list[k].annotationId = id
         /\ \A j \in 1..(k - 1) : list[j].annotationId # id]

\* the tags of a suggestion, as a set; empty strings are skipped
RECURSIVE TagsOf(_)
TagsOf(tags) ==
  IF tags = <<>> THEN {}
  ELSE (IF Head(tags) = "" THEN {} ELSE {Head(tags)}) \cup TagsOf(Tail(tags))

\* the call goes on with the next id of a notifier event, or returns
AfterItem(hr) ==
  IF hr.op = "notify" /\ Len(hr.ids) > 1
    THEN [IdleHandler EXCEPT !.op = "notify", !.at = "fetch",
                             !.ids = Tail(hr.ids)]
    ELSE DoneHandler(hr.op)

\* glossary.ts 38-59, outline.ts 423-446, sectionSummaries.ts 260-301: a
\* generate call has its LLM response and calls save / upsertOutlineNote
StartSave(h, kind) ==
  /\ Free(h)
  /\ handler' = [handler EXCEPT ![h] =
                   [IdleHandler EXCEPT !.op = "save", !.at = "find", !.kind = kind]]
  /\ UNCHANGED << enabled, childNotes, annotationTags, suggestCalls,
                  exceptReader >>

\* glossary.ts 139-143, outline.ts 534-541, autotag.ts 800-804: the search
\* for the tagged note returns; the note found, or else a new one, gets the
\* content (setNote on the item found is seen by every reader of that item)
\* and its save is awaited
SaveFind(h) ==
  /\ handler[h].at = "find"
  /\ LET n == FindNote(handler[h].kind)
     IN /\ handler' = [handler EXCEPT ![h].at = "saving", ![h].note = n]
        /\ IF n = 0 THEN UNCHANGED childNotes
           ELSE childNotes' = [childNotes EXCEPT ![n].list = handler[h].list]
  /\ UNCHANGED << enabled, annotationTags, suggestCalls, exceptReader >>

\* glossary.ts 143-149, outline.ts 541-547, autotag.ts 804-809: the save
\* returns; a new note is now a child note and gets the tag; the call returns
SaveDone(h) ==
  /\ handler[h].at = "saving"
  /\ IF handler[h].note = 0
       THEN childNotes' = Append(childNotes,
                            [kind |-> handler[h].kind, list |-> handler[h].list])
       ELSE UNCHANGED childNotes
  /\ handler' = [handler EXCEPT ![h] = AfterItem(handler[h])]
  /\ UNCHANGED << enabled, annotationTags, suggestCalls, exceptReader >>

\* autotag.ts 616-618: setAutoTagEnabled, as toggleAutoTagAndRerender calls it
ToggleAutoTag ==
  /\ enabled' = ~enabled
  /\ UNCHANGED << childNotes, annotationTags, suggestCalls, handler,
                  exceptReader >>

\* a notify handler that lets every event through while the toggle is on
StartNotifyAnyEvent(h, event, type, ids) ==
  /\ Free(h)
  /\ handler' = [handler EXCEPT ![h] =
       IF ~enabled THEN RejectedHandler
       ELSE [IdleHandler EXCEPT !.op = "notify", !.at = "fetch", !.ids = ids]]
  /\ UNCHANGED << enabled, childNotes, annotationTags, suggestCalls,
                  exceptReader >>

\* autotag.ts 624-636: handleAutoTagNotify up to the first getAsync
StartNotify(h, event, type, ids) ==
  /\ Free(h)
  /\ handler' = [handler EXCEPT ![h] =
       IF ~enabled \/ type # "item" \/ event \notin {"add", "modify"}
         THEN RejectedHandler
         ELSE [IdleHandler EXCEPT !.op = "notify", !.at = "fetch", !.ids = ids]]
  /\ UNCHANGED << enabled, childNotes, annotationTags, suggestCalls,
                  exceptReader >>

\* autotag.ts 636-656: the item is there; items that are no annotation or
\* carry APPLIED_TAG are skipped, for the others suggestTagsForAnnotation
\* calls the LLM
NotifyFetched(h) ==
  /\ handler[h].at = "fetch"
  /\ LET item == Head(handler[h].ids)
     IN IF item \notin AnnotationIds \/ APPLIED_TAG \in annotationTags[item]
          THEN /\ handler' = [handler EXCEPT ![h] = AfterItem(handler[h])]
               /\ UNCHANGED suggestCalls
          ELSE /\ handler' = [handler EXCEPT ![h].at = "llm", ![h].ann = item]
               /\ suggestCalls' = suggestCalls + 1
  /\ UNCHANGED << enabled, childNotes, annotationTags, exceptReader >>

\* autotag.ts 712-726: suggestTagsForMostRecentAnnotation up to callLLM; the
\* last annotation of the attachment is taken
StartSuggest(h) ==
  /\ Free(h)
  /\ handler' = [handler EXCEPT ![h] =
       [IdleHandler EXCEPT !.op = "suggest", !.at = "llm",
                           !.ann = CHOOSE a \in AnnotationIds :
                                          \A b \in AnnotationIds : b <= a]]
  /\ suggestCalls' = suggestCalls + 1
  /\ UNCHANGED << enabled, childNotes, annotationTags, exceptReader >>

\* autotag.ts 757-772: callLLM returns and parseTagArray gives the tags
LlmReturns(h, tags) ==
  /\ handler[h].at = "llm"
  /\ handler' = [handler EXCEPT ![h].at = "upsert", ![h].tags = tags]
  /\ UNCHANGED << enabled, childNotes, annotationTags, suggestCalls,
                  exceptReader >>

\* callLLM throws: handleAutoTagNotify logs it and goes on (658-660),
\* suggestTagsForMostRecentAnnotation throws
LlmFails(h) ==
  /\ handler[h].at = "llm"
  /\ handler' = [handler EXCEPT ![h] = AfterItem(handler[h])]
  /\ UNCHANGED << enabled, childNotes, annotationTags, suggestCalls,
                  exceptReader >>

\* an upsert that also puts the suggested tags on the annotation
UpsertReadApplying(h) ==
  /\ handler[h].at = "upsert"
  /\ handler' = [handler EXCEPT ![h] =
       IF HasSuggestionFor(StoredSuggestions, handler[h].ann)
         THEN AfterItem(handler[h])
         ELSE [handler[h] EXCEPT
                 !.at = "find", !.kind = SUGGESTIONS_TAG,
                 !.list = Append(StoredSuggestions,
                            [annotationId |-> handler[h].ann,
                             suggestedTags |-> handler[h].tags])]]
  /\ annotationTags' = [annotationTags EXCEPT ![handler[h].ann] =
                          @ \cup TagsOf(handler[h].tags)]
  /\ UNCHANGED << enabled, childNotes, suggestCalls, exceptReader >>

\* autotag.ts 786-791: upsertSuggestion has read the stored list
UpsertRead(h) ==
  /\ handler[h].at = "upsert"
  /\ handler' = [handler EXCEPT ![h] =
       IF HasSuggestionFor(StoredSuggestions, handler[h].ann)
         THEN AfterItem(handler[h])
         ELSE [handler[h] EXCEPT
                 !.at = "find", !.kind = SUGGESTIONS_TAG,
                 !.list = Append(StoredSuggestions,
                            [annotationId |-> handler[h].ann,
                             suggestedTags |-> handler[h].tags])]]
  /\ UNCHANGED << enabled, childNotes, annotationTags, suggestCalls,
                  exceptReader >>

\* autotag.ts 684-687: applySuggestion is called
StartApply(h, a) ==
  /\ Free(h)
  /\ handler' = [handler EXCEPT ![h] =
       [IdleHandler EXCEPT !.op = "apply", !.at = "apply", !.ann = a]]
  /\ UNCHANGED << enabled, childNotes, annotationTags, suggestCalls,
                  exceptReader >>

\* autotag.ts 688-700: the stored list is read; without a suggestion for the
\* annotation the call returns, else the annotation gets the suggested tags
\* and APPLIED_TAG and its save is awaited
ApplyRead(h) ==
  /\ handler[h].at = "apply"
  /\ IF ~HasSuggestionFor(StoredSuggestions, handler[h].ann)
       THEN /\ handler' = [handler EXCEPT ![h] = DoneHandler("apply")]
            /\ UNCHANGED annotationTags
       ELSE LET sg == SuggestionFor(StoredSuggestions, handler[h].ann)
            IN /\ handler' = [handler EXCEPT ![h].at = "tagged"]
               /\ annotationTags' =
                    [annotationTags EXCEPT ![handler[h].ann] =
                       @ \cup TagsOf(sg.suggestedTags) \cup {APPLIED_TAG}]
  /\ UNCHANGED << enabled, childNotes, suggestCalls, exceptReader >>

\* autotag.ts 700-702: the annotation is saved; removeSuggestion is called
AnnotationSaved(h) ==
  /\ handler[h].at = "tagged"
  /\ handler' = [handler EXCEPT ![h].at = "remove"]
  /\ UNCHANGED << enabled, childNotes, annotationTags, suggestCalls,
                  exceptReader >>

\* autotag.ts 705-710: ignoreSuggestion calls removeSuggestion
StartIgnore(h, a) ==
  /\ Free(h)
  /\ handler' = [handler EXCEPT ![h] =
       [IdleHandler EXCEPT !.op = "ignore", !.at = "remove", !.ann = a]]
  /\ UNCHANGED << enabled, childNotes, annotationTags, suggestCalls,
                  exceptReader >>

\* autotag.ts 794-797: removeSuggestion has read the stored list
RemoveRead(h) ==
  /\ handler[h].at = "remove"
  /\ handler' = [handler EXCEPT
         ![h].at = "find", ![h].kind = SUGGESTIONS_TAG,
         ![h].list = Without(StoredSuggestions, handler[h].ann)]
  /\ UNCHANGED << enabled, childNotes, annotationTags, suggestCalls,
                  exceptReader >>

\* the arguments of a notifier event
NotifyEvents == {"add", "modify", "delete"}

NotifyTypes == {"item", "tag"}

\* item 0 is an item that is no annotation
NotifyIds == {<< i >> : i \in AnnotationIds \cup {0}} \cup {<< 1, 2 >>}

\* what parseTagArray gives
TagLists == {<< "topic" >>}

Suggestion(a) == [annotationId |-> a, suggestedTags |-> << "topic" >>]

\* the parent has no suggestions note, or one that earlier calls have left
NotesAtFirst ==
  {<<>>}
    \cup {<< [kind |-> SUGGESTIONS_TAG, list |-> list] >> :
            list \in {<<>>, << Suggestion(1) >>,
                      << Suggestion(1), Suggestion(2) >>}}

InitReader ==
  /\ FittingIdle
  /\ PromptsIdle
  /\ BatchIdle
  /\ EnabledIdle
  /\ LlmIdle
  /\ enabled = FALSE
  /\ childNotes \in NotesAtFirst
  /\ annotationTags = [a \in AnnotationIds |-> {}]
  /\ suggestCalls = 0
  /\ handler = [h \in Handlers |-> IdleHandler]

\* the artifacts are generated and saved, suggestions are ignored
NextReader ==
  \E h \in Handlers :
    \/ \E kind \in ReaderKinds : StartSave(h, kind)
    \/ \E a \in AnnotationIds : StartIgnore(h, a)
    \/ RemoveRead(h)
    \/ SaveFind(h)
    \/ SaveDone(h)

SpecReader == InitReader /\ [][NextReader]_vars

\* tags are suggested for annotations, suggestions are applied and ignored
NextAutoTag ==
  \/ ToggleAutoTag
  \/ \E h \in Handlers :
       \/ SaveFind(h)
       \/ SaveDone(h)
       \/ \E event \in NotifyEvents, type \in NotifyTypes, ids \in NotifyIds :
            StartNotify(h, event, type, ids)
       \/ NotifyFetched(h)
       \/ StartSuggest(h)
       \/ \E tags \in TagLists : LlmReturns(h, tags)
       \/ LlmFails(h)
       \/ UpsertRead(h)
       \/ \E a \in AnnotationIds : StartApply(h, a)
       \/ ApplyRead(h)
       \/ AnnotationSaved(h)
       \/ \E a \in AnnotationIds : StartIgnore(h, a)
       \/ RemoveRead(h)

SpecAutoTag == InitReader /\ [][NextAutoTag]_vars

\* --------------------------------------------------- summarizeSelectedItems
\* what summarizeSelectedItems leaves alone
exceptBatch ==
  << inputs, pc, fitLocals, result, modelPrefs, modelCache, pending, returned,
     capacityVars, collection, cpc, errorShown, llmCalls, notes, options,
     prompt, fitResult, estimateVars, base64Vars, selectionVars, promptVars,
     readerVars, enabledVars, llmVars >>

\* summarizeSelectedItems.ts 20-33: reset the tracker, read the selection,
\* return when it is empty
StartBatch ==
  /\ spc = "start"
  /\ IF selectedItems = <<>>
       THEN /\ stage' = "idle"
            /\ notified' = reset
            /\ spc' = "ended"
       ELSE /\ stage' = "preparing"
            /\ notified' = setStage(reset, "preparing")
            /\ spc' = "dialog"
  /\ UNCHANGED << selectedItems, itemIndex, successCount, errorCount,
                  skippedCount, contentType, exceptBatch >>

\* summarizeSelectedItems.ts 36-62: the dialog returns; cancelled: the
\* tracker is reset; prompt not found: error; else the loop starts
BatchDialog ==
  /\ spc = "dialog"
  /\ \/ /\ stage' = "idle"
        /\ notified' = reset
        /\ spc' = "ended"
        /\ UNCHANGED contentType
     \/ /\ stage' = "error"
        /\ notified' = setError(notified)
        /\ spc' = "ended"
        /\ UNCHANGED contentType
     \/ /\ \E type \in ContentTypes : contentType' = type
        /\ spc' = "loop"
        /\ UNCHANGED << stage, notified >>
  /\ UNCHANGED << selectedItems, itemIndex, successCount, errorCount,
                  skippedCount, exceptBatch >>

\* summarizeSelectedItems.ts 64-89 and 172-193: the loop head; after the
\* last item the final status is set; a note or attachment is skipped; for
\* any other item hasPDFAttachment is awaited
LoopHead ==
  /\ spc = "loop"
  /\ IF itemIndex > Len(selectedItems)
       THEN /\ spc' = "finished"
            /\ IF successCount = 0 /\ errorCount > 0
                 THEN stage' = "error" /\ notified' = setError(notified)
                 ELSE /\ stage' = "complete"
                      /\ notified' = setStage(notified, "complete")
            /\ UNCHANGED << itemIndex, skippedCount >>
       ELSE LET shown == setProgress(notified, (itemIndex - 1) * 100,
                                     Len(selectedItems))
            IN IF selectedItems[itemIndex] = "note"
                 THEN /\ skippedCount' = skippedCount + 1
                      /\ itemIndex' = itemIndex + 1
                      /\ notified' = shown
                      /\ UNCHANGED << spc, stage >>
                 ELSE /\ stage' = "preparing"
                      /\ notified' = setStage(shown, "preparing")
                      /\ spc' = "pdfcheck"
                      /\ UNCHANGED << itemIndex, skippedCount >>
  /\ UNCHANGED << selectedItems, successCount, errorCount, contentType,
                  exceptBatch >>

\* summarizeSelectedItems.ts 165-169: the catch block counts the error and
\* the loop goes on
Caught ==
  /\ errorCount' = errorCount + 1
  /\ itemIndex' = itemIndex + 1
  /\ spc' = "loop"
  /\ UNCHANGED << successCount, skippedCount, stage, notified >>

\* summarizeSelectedItems.ts 89-115: hasPDFAttachment returns or throws;
\* without a PDF the item is skipped, else the content is read
PdfChecked(ok) ==
  /\ spc = "pdfcheck"
  /\ IF ~ok THEN Caught
     ELSE IF selectedItems[itemIndex] = "nopdf"
       THEN /\ skippedCount' = skippedCount + 1
            /\ itemIndex' = itemIndex + 1
            /\ spc' = "loop"
            /\ UNCHANGED << successCount, errorCount, stage, notified >>
       ELSE LET st == IF contentType = "pdf" THEN "encoding"
                                                ELSE "extracting"
            IN /\ stage' = st
               /\ notified' = setStage(notified, st)
               /\ spc' = "extract"
               /\ UNCHANGED << itemIndex, successCount, errorCount,
                               skippedCount >>
  /\ UNCHANGED << selectedItems, contentType, exceptBatch >>

\* summarizeSelectedItems.ts 105-148: getPDFDataFromItem or
\* extractTextFromItem returns or throws; callLLM is called
Extracted(ok) ==
  /\ spc = "extract"
  /\ IF ~ok THEN Caught
     ELSE /\ stage' = "waiting"
          /\ notified' = setStage(setStage(notified, "calling_api"), "waiting")
          /\ spc' = "llm"
          /\ UNCHANGED << itemIndex, successCount, errorCount, skippedCount >>
  /\ UNCHANGED << selectedItems, contentType, exceptBatch >>

\* summarizeSelectedItems.ts 142-162: callLLM returns or throws;
\* createSummary is called
BatchLlmDone(ok) ==
  /\ spc = "llm"
  /\ IF ~ok THEN Caught
     ELSE /\ stage' = "saving"
          /\ notified' = setStage(setStage(notified, "receiving"), "saving")
          /\ spc' = "save"
          /\ UNCHANGED << itemIndex, successCount, errorCount, skippedCount >>
  /\ UNCHANGED << selectedItems, contentType, exceptBatch >>

\* a save whose exception ends the loop
SummarySavedOrStop(ok) ==
  /\ spc = "save"
  /\ IF ~ok
       THEN /\ spc' = "finished"
            /\ UNCHANGED << itemIndex, successCount, errorCount >>
       ELSE /\ successCount' = successCount + 1
            /\ itemIndex' = itemIndex + 1
            /\ spc' = "loop"
            /\ UNCHANGED errorCount
  /\ UNCHANGED << skippedCount, stage, notified >>
  /\ UNCHANGED << selectedItems, contentType, exceptBatch >>

\* summarizeSelectedItems.ts 162-169: createSummary returns or throws
SummarySaved(ok) ==
  /\ spc = "save"
  /\ IF ~ok THEN Caught
     ELSE /\ successCount' = successCount + 1
          /\ itemIndex' = itemIndex + 1
          /\ spc' = "loop"
          /\ UNCHANGED << errorCount, skippedCount, stage, notified >>
  /\ UNCHANGED << selectedItems, contentType, exceptBatch >>

\* summarizeSelectedItems is called with any selection
InitBatch ==
  /\ FittingIdle
  /\ PromptsIdle
  /\ ReaderIdle
  /\ EnabledIdle
  /\ LlmIdle
  /\ selectedItems \in SeqsUpTo(ItemKinds, MaxItems)
  /\ itemIndex = 1
  /\ successCount = 0
  /\ errorCount = 0
  /\ skippedCount = 0
  /\ contentType = "text"
  /\ spc = "start"

NextBatch ==
  \/ StartBatch
  \/ BatchDialog
  \/ LoopHead
  \/ \E ok \in BOOLEAN :
       \/ PdfChecked(ok)
       \/ Extracted(ok)
       \/ BatchLlmDone(ok)
       \/ SummarySaved(ok)

SpecBatch == InitBatch /\ [][NextBatch]_vars

\* ------------------------------------------------------------ enabled models
\* what the preference pane's model list leaves alone
exceptEnabled ==
  << inputs, pc, fitLocals, result, geminiModelsPref, openaiModelsPref,
     pending, returned, callers, estimateVars, base64Vars, selectionVars,
     promptVars, readerVars, batchVars, llmVars >>

\* Array.prototype.filter on a model list, by id
RECURSIVE ModelsWithIdIn(_, _)
ModelsWithIdIn(models, ids) ==
  IF models = <<>> THEN <<>>
  ELSE (IF Head(models).id \in ids THEN << Head(models) >> ELSE <<>>)
         \o ModelsWithIdIn(Tail(models), ids)

IdsOf(models) == [k \in 1..Len(models) |-> models[k].id]

Range(q) == {q[k] : k \in 1..Len(q)}

\* models.ts 105-113: getEnabledModelIds
getEnabledModelIds ==
  IF enabledModels.kind = "json" THEN enabledModels.ids ELSE <<>>

\* a getter for which an empty list enables nothing
getEnabledModelsNoDefault ==
  ModelsWithIdIn(getAllModels, Range(getEnabledModelIds))

\* models.ts 90-100: getEnabledModels
getEnabledModels ==
  IF Len(getEnabledModelIds) = 0 THEN getAllModels
  ELSE ModelsWithIdIn(getAllModels, Range(getEnabledModelIds))

\* preferenceScript.ts 482-502: updateEnabledModels, run by the change
\* event of a checkbox
UpdateEnabledModels(ids) ==
  /\ epc \in {"rendered", "updated"}
  /\ checked' = ids
  /\ LET enabledIds == IdsOf(ModelsWithIdIn(getAllModels, ids))
     IN enabledModels' = IF Len(enabledIds) = Len(getAllModels)
                           THEN IdsJson(<<>>)
                           ELSE IdsJson(enabledIds)
  /\ cachedGeminiModels' = CacheAfterGet(cachedGeminiModels, geminiModelsPref)
  /\ cachedOpenAIModels' = CacheAfterGet(cachedOpenAIModels, openaiModelsPref)
  /\ epc' = "updated"
  /\ UNCHANGED << enabledResult, exceptEnabled >>

\* models.ts 90-100: getEnabledModels is called
GetEnabledModels ==
  /\ epc = "updated"
  /\ enabledResult' = getEnabledModels
  /\ cachedGeminiModels' = CacheAfterGet(cachedGeminiModels, geminiModelsPref)
  /\ cachedOpenAIModels' = CacheAfterGet(cachedOpenAIModels, openaiModelsPref)
  /\ epc' = "returned"
  /\ UNCHANGED << checked, enabledModels, exceptEnabled >>

\* the pane is rendered over the installed models or over fetched OpenAI
\* models, each box checked as createModelCheckbox sets it
InitEnabled ==
  /\ FittingIdle
  /\ PromptsIdle
  /\ ReaderIdle
  /\ BatchIdle
  /\ LlmIdle
  /\ enabledModels \in {IdsUnset, IdsJson(<<>>), IdsJson(<< "gpt-4o" >>)}
  /\ checked = IF Len(getEnabledModelIds) = 0 THEN Range(IdsOf(getAllModels))
               ELSE Range(getEnabledModelIds)
  /\ enabledResult = <<>>
  /\ epc = "rendered"

NextEnabled ==
  \/ \E ids \in SUBSET Range(IdsOf(getAllModels)) : UpdateEnabledModels(ids)
  \/ GetEnabledModels

SpecEnabled == InitEnabled /\ [][NextEnabled]_vars

\* ------------------------------------------------------------------ callLLM
\* what callLLM leaves alone
exceptLlm ==
  << inputs, pc, fitLocals, result, geminiModelsPref, openaiModelsPref,
     pending, returned, callers, estimateVars, base64Vars, selectionVars,
     promptVars, readerVars, batchVars, enabledVars >>

\* models.ts 24-59, gemini.ts, openai.ts 123: the provider field; every model
\* of the Gemini list has "gemini", every model of the OpenAI list "openai"
providerOf(model) ==
  IF \E k \in 1..Len(getGeminiModels) : getGeminiModels[k] = model
    THEN "gemini" ELSE "openai"

\* models.ts 27-70, openai.ts 61-66 and 118: the supportsVision field; of the
\* models here only gpt-3.5-turbo-0125 matches no entry of OPENAI_VISION_MODELS
supportsVision(model) == model.id # "gpt-3.5-turbo-0125"

\* service.ts 944-945: request.modelId || getPref("defaultModel")
RequestedModelId ==
  IF request.modelId # "" THEN request.modelId ELSE defaultModel

\* service.ts 952: request.contentType || "text"
RequestedContentType ==
  IF request.contentType # Undefined THEN request.contentType ELSE "text"

\* a callLLM that sends a PDF request to any model
CallLLMNoVisionCheck ==
  /\ lpc = "called"
  /\ LET model == getModelById(RequestedModelId)
         pdf == RequestedContentType = "pdf" /\ request.pdfBase64 # ""
     IN IF model = undefinedModel
          THEN lpc' = "threw" /\ UNCHANGED providerCalls
        ELSE IF providerOf(model) = "gemini"
          THEN /\ providerCalls' =
                    Append(providerCalls,
                           IF pdf THEN "callGeminiWithPDF" ELSE "callGemini")
               /\ lpc' = "awaiting"
        ELSE IF pdf
          THEN lpc' = "threw" /\ UNCHANGED providerCalls
        ELSE /\ providerCalls' = Append(providerCalls, "callOpenAI")
             /\ lpc' = "awaiting"
  /\ cachedGeminiModels' = CacheAfterGet(cachedGeminiModels, geminiModelsPref)
  /\ cachedOpenAIModels' = CacheAfterGet(cachedOpenAIModels, openaiModelsPref)
  /\ UNCHANGED << request, exceptLlm >>

\* service.ts 944-976: callLLM up to the provider call
CallLLM ==
  /\ lpc = "called"
  /\ LET model == getModelById(RequestedModelId)
         pdf == RequestedContentType = "pdf" /\ request.pdfBase64 # ""
     IN IF model = undefinedModel
          THEN lpc' = "threw" /\ UNCHANGED providerCalls
        ELSE IF RequestedContentType = "pdf" /\ ~supportsVision(model)
          THEN lpc' = "threw" /\ UNCHANGED providerCalls
        ELSE IF providerOf(model) = "gemini"
          THEN /\ providerCalls' =
                    Append(providerCalls,
                           IF pdf THEN "callGeminiWithPDF" ELSE "callGemini")
               /\ lpc' = "awaiting"
        ELSE IF pdf
          THEN lpc' = "threw" /\ UNCHANGED providerCalls
        ELSE /\ providerCalls' = Append(providerCalls, "callOpenAI")
             /\ lpc' = "awaiting"
  /\ cachedGeminiModels' = CacheAfterGet(cachedGeminiModels, geminiModelsPref)
  /\ cachedOpenAIModels' = CacheAfterGet(cachedOpenAIModels, openaiModelsPref)
  /\ UNCHANGED << request, exceptLlm >>

\* service.ts 961-985: the provider call resolves and callLLM returns the
\* response, or it rejects and callLLM rejects with it
ProviderDone(ok) ==
  /\ lpc = "awaiting"
  /\ lpc' = IF ok THEN "returned" ELSE "rejected"
  /\ UNCHANGED << request, providerCalls, cachedGeminiModels,
                  cachedOpenAIModels, exceptLlm >>

\* the model ids of a request: none, three that can be listed, one that
\* never is
RequestModelIds ==
  {"", "gemini-1.5-flash", "gpt-4o", "gpt-3.5-turbo-0125", "no-such-model"}

RequestContentTypes == {Undefined, "text", "html", "pdf"}

\* pdfBase64: absent or some payload
RequestPayloads == {"", "JVBERi0="}

\* callLLM is called with any request, over the installed model lists or
\* fetched OpenAI models, the default model listed or not
InitLLM ==
  /\ summaries = <<>>
  /\ promptText = <<>>
  /\ modelId = Undefined
  /\ sortStrategy = "date"
  /\ maxContextTokens = DefaultMaxContextTokens
  /\ defaultModel \in {"gemini-1.5-flash", "gpt-3.5-turbo-0125"}
  /\ FitNotCalled
  /\ geminiModelsPref = PrefUnset
  /\ cachedGeminiModels = CacheNull
  /\ openaiModelsPref \in {PrefUnset, PrefJson(FETCHED_OPENAI_MODELS)}
  /\ cachedOpenAIModels = CacheNull
  /\ pending = <<>>
  /\ returned = <<>>
  /\ CapacityIdle
  /\ CollectionIdle
  /\ EstimateIdle
  /\ Base64Idle
  /\ SelectionIdle
  /\ PromptsIdle
  /\ ReaderIdle
  /\ BatchIdle
  /\ EnabledIdle
  /\ request \in {Request(m, type, pdf) : m \in RequestModelIds,
                     type \in RequestContentTypes, pdf \in RequestPayloads}
  /\ providerCalls = <<>>
  /\ lpc = "called"

NextLLM ==
  \/ CallLLM
  \/ \E ok \in BOOLEAN : ProviderDone(ok)

SpecLLM == InitLLM /\ [][NextLLM]_vars

\* ------------------------------------------------------ helpers for claims
RECURSIVE SumTokens(_)
SumTokens(list) ==
  IF list = <<>> THEN 0
  ELSE estimateTokenCount(list[1].content) + SumTokens(Tail(list))

Count(x, list) == Cardinality({i \in 1..Len(list) : list[i] = x})

InSeq(x, list) == \E i \in 1..Len(list) : list[i] = x

\* the number of sorted candidates the loop has evaluated so far
Evaluated == IF pc = "start" THEN 0 ELSE idx - 1

\* the running total at the moment sortedSummaries[k] is evaluated: the
\* tokens of the candidates before it that were included
RunningTotalAt(k) ==
  SumTokens(SelectSeq(SubSeq(sortedSummaries, 1, k - 1),
                      LAMBDA s : InSeq(s, included)))

\* ------------------------------------------------------------------- claims
\* C1 (as stated): whenever the returned maxTokens is > 0,
\* promptTokens + totalTokens <= maxTokens.
C1_PromptPlusTotalWithinMax ==
  (pc = "done" /\ result.maxTokens > 0)
    => result.promptTokens + result.totalTokens <= result.maxTokens

\* C1 (amended): whenever the returned maxTokens is > 0, totalTokens alone is
\* <= maxTokens; maxTokens already has the prompt tokens subtracted.
C1_TotalWithinMax ==
  (pc = "done" /\ result.maxTokens > 0)
    => result.totalTokens <= result.maxTokens

C1_Witness ==
  /\ pc = "done"
  /\ result.maxTokens > 0
  /\ result.promptTokens > 0
  /\ result.totalTokens = result.maxTokens
  /\ result.excluded # <<>>

\* C2: included and excluded partition the input: their lengths add up to the
\* number of candidates and every candidate is in exactly one of them, once.
C2_Partition ==
  pc = "done" =>
    /\ Len(result.included) + Len(result.excluded) = Len(summaries)
    /\ \A i \in 1..Len(summaries) :
         Count(summaries[i], result.included)
           + Count(summaries[i], result.excluded) = 1

C2_Witness ==
  /\ pc = "done"
  /\ Len(summaries) = MaxSummaries
  /\ result.included # <<>>
  /\ result.excluded # <<>>

\* C3: the returned totalTokens is the sum of estimateTokenCount(c.content)
\* over the candidates in included.
C3_TotalIsSumOfIncluded ==
  pc = "done" => result.totalTokens = SumTokens(result.included)

C3_Witness ==
  /\ pc = "done"
  /\ Len(result.included) >= 2
  /\ \A i \in 1..Len(result.included) :
       estimateTokenCount(result.included[i].content) > 0
  /\ result.excluded # <<>>

\* C4: the running total starts at 0 and every candidate evaluated so far is
\* included if and only if the running total plus its tokens was <= the
\* available budget when it was evaluated, and is excluded otherwise.
C4_GreedyWalk ==
  /\ pc = "loop" /\ idx = 1 => totalTokens = 0
  /\ \A k \in 1..Evaluated :
       LET s == sortedSummaries[k]
           fits == RunningTotalAt(k) + estimateTokenCount(s.content)
                     <= availableTokens
       IN /\ fits <=> InSeq(s, included)
          /\ ~fits <=> InSeq(s, excluded)
  /\ pc # "start" => totalTokens = RunningTotalAt(idx)

C4_Witness ==
  /\ pc = "done"
  /\ Len(included) >= 1
  /\ Len(excluded) >= 1
  /\ \E k \in 1..Len(sortedSummaries) :
       /\ InSeq(sortedSummaries[k], included)
       /\ RunningTotalAt(k) > 0
       /\ RunningTotalAt(k) + estimateTokenCount(sortedSummaries[k].content)
            = availableTokens

\* the model the call selects: the one with the given id, or the current
\* model (preference defaultModel) when no id is given
SelectedModel ==
  IF modelId # Undefined THEN getModelById(modelId)
  ELSE getModelById(defaultModel)

\* C5: for every selected model and preference value, the returned maxTokens
\* is min(maxContextTokens, model.contextWindow) - promptTokens - 4000, with
\* promptTokens the estimate of the prompt text.
C5_AvailableFormula ==
  (pc = "done" /\ SelectedModel # undefinedModel) =>
    /\ result.promptTokens = estimateTokenCount(promptText)
    /\ result.maxTokens =
         (IF maxContextTokens <= SelectedModel.contextWindow
            THEN maxContextTokens ELSE SelectedModel.contextWindow)
         - estimateTokenCount(promptText) - 4000

C5_Witness ==
  /\ pc = "done"
  /\ SelectedModel # undefinedModel
  /\ SelectedModel.contextWindow < maxContextTokens
  /\ result.promptTokens > 0
  /\ result.maxTokens = SelectedModel.contextWindow - result.promptTokens - 4000

\* C6 (as stated): whenever maxTokens is <= 0, included is empty and every
\* candidate is in excluded.
C6_NonPositiveBudgetExcludesAll ==
  (pc = "done" /\ result.maxTokens <= 0) =>
    /\ result.included = <<>>
    /\ Len(result.excluded) = Len(summaries)

\* C6 (amended): whenever maxTokens is < 0, included is empty and every
\* candidate is in excluded; when maxTokens is exactly 0, exactly the
\* candidates of 0 tokens (empty text) are included and all others excluded.
C6_NegativeBudgetExcludesAll ==
  pc = "done" =>
    /\ result.maxTokens < 0 =>
         /\ result.included = <<>>
         /\ Len(result.excluded) = Len(summaries)
    /\ result.maxTokens = 0 =>
         \A i \in 1..Len(summaries) :
           /\ InSeq(summaries[i], result.included)
                <=> estimateTokenCount(summaries[i].content) = 0
           /\ InSeq(summaries[i], result.excluded)
                <=> estimateTokenCount(summaries[i].content) > 0

C6_Witness ==
  /\ pc = "done"
  /\ result.maxTokens = 0
  /\ result.included # <<>>
  /\ result.excluded # <<>>

\* C7: the inclusion test is <=: a candidate whose tokens exactly fill the
\* remaining budget is included; with available = 0 a candidate of 0 tokens
\* is included, with available < 0 a candidate of 0 tokens is excluded.
C7_BoundaryInclusive ==
  \A k \in 1..Evaluated :
    LET s == sortedSummaries[k]
        t == estimateTokenCount(s.content)
    IN /\ RunningTotalAt(k) + t = availableTokens => InSeq(s, included)
       /\ (availableTokens = 0 /\ t = 0) =>
            (InSeq(s, included) /\ ~InSeq(s, excluded))
       /\ (availableTokens < 0 /\ t = 0) =>
            (InSeq(s, excluded) /\ ~InSeq(s, included))

C7_Witness ==
  /\ pc = "done"
  /\ availableTokens = 0
  /\ Len(result.included) >= 2
  /\ \A i \in 1..Len(result.included) : result.included[i].content = <<>>

IsPrefix(a, b) == Len(a) <= Len(b) /\ SubSeq(b, 1, Len(a)) = a

\* sortedSummaries[i] was excluded, the later sortedSummaries[j] has fewer
\* tokens and fitted in the remaining budget when it was evaluated
SkippedThenFits(i, j) ==
  /\ i < j
  /\ InSeq(sortedSummaries[i], excluded)
  /\ estimateTokenCount(sortedSummaries[i].content)
       > estimateTokenCount(sortedSummaries[j].content)
  /\ RunningTotalAt(j) + estimateTokenCount(sortedSummaries[j].content)
       <= availableTokens

\* C8 (as stated): once an earlier, larger candidate has been excluded, a
\* later, smaller candidate that would fit in the remaining budget is not
\* included.
C8_LaterSmallerNotIncluded ==
  pc = "done" =>
    \A i, j \in 1..Len(sortedSummaries) :
      SkippedThenFits(i, j) => ~InSeq(sortedSummaries[j], result.included)

\* C8 (amended): the walk is one forward pass that never backtracks
\* (included and excluded only grow at the end, the position only advances),
\* and it goes on after an exclusion: a later, smaller candidate that fits
\* in the remaining budget when it is evaluated is included.
C8_SinglePassContinues ==
  /\ [][ /\ IsPrefix(included, included')
         /\ IsPrefix(excluded, excluded')
         /\ idx' >= idx ]_vars
  /\ [](pc = "done" =>
          \A i, j \in 1..Len(sortedSummaries) :
            SkippedThenFits(i, j) => InSeq(sortedSummaries[j], result.included))

\* a larger candidate was skipped, a later smaller one was included, and
\* budget is still left unused
C8_Witness ==
  /\ pc = "done"
  /\ \E i, j \in 1..Len(sortedSummaries) :
       SkippedThenFits(i, j) /\ InSeq(sortedSummaries[j], result.included)
  /\ result.totalTokens < result.maxTokens

RECURSIVE SumOfInputs(_)
SumOfInputs(S) ==
  IF S = {} THEN 0
  ELSE LET i == CHOOSE x \in S : TRUE
       IN estimateTokenCount(summaries[i].content) + SumOfInputs(S \ {i})

\* the sets of input positions whose candidates fit the budget together
FittingSubsets ==
  {S \in SUBSET (1..Len(summaries)) : SumOfInputs(S) <= availableTokens}

MaxFitCount ==
  IF FittingSubsets = {} THEN 0
  ELSE LET best == CHOOSE S \in FittingSubsets :
                     \A T \in FittingSubsets : Cardinality(T) <= Cardinality(S)
       IN Cardinality(best)

\* C9: with strategy "size" the candidates are evaluated smallest text
\* first, the included candidates are a prefix of that order, and their
\* number is the largest number of candidates that fit the budget together.
C9_SizeMaximizesCount ==
  (pc = "done" /\ sortStrategy = "size") =>
    /\ \A i, j \in 1..Len(sortedSummaries) :
         i < j => Len(sortedSummaries[i].content) <= Len(sortedSummaries[j].content)
    /\ \A i \in 1..Len(summaries) : Count(summaries[i], sortedSummaries) = 1
    /\ result.included = SubSeq(sortedSummaries, 1, Len(result.included))
    /\ Len(result.included) = MaxFitCount

C9_Witness ==
  /\ pc = "done"
  /\ sortStrategy = "size"
  /\ Len(result.included) >= 2
  /\ result.excluded # <<>>
  /\ \E i, j \in 1..Len(summaries) :
       i < j /\ Len(summaries[i].content) > Len(summaries[j].content)
  /\ estimateTokenCount(summaries[1].content) > result.maxTokens

\* the input position of the candidate with the r-th shortest text, for
\* candidates of pairwise distinct lengths
PositionOfRank(r) ==
  CHOOSE i \in 1..Len(summaries) :
    Cardinality({j \in 1..Len(summaries) :
      Len(summaries[j].content) < Len(summaries[i].content)}) = r - 1

DistinctLengths ==
  \A i, j \in 1..Len(summaries) :
    i # j => Len(summaries[i].content) # Len(summaries[j].content)

\* the budget fits the two shortest of three candidates and not all three
FitsExactlyTwoSmallest ==
  /\ Len(summaries) = 3
  /\ DistinctLengths
  /\ LET t1 == estimateTokenCount(summaries[PositionOfRank(1)].content)
         t2 == estimateTokenCount(summaries[PositionOfRank(2)].content)
         t3 == estimateTokenCount(summaries[PositionOfRank(3)].content)
     IN t1 + t2 <= availableTokens /\ availableTokens < t1 + t2 + t3

\* C10: with strategy "size" the candidates are evaluated in ascending order
\* of text length, ties in input order; for three candidates of distinct
\* lengths and a budget that fits exactly the two smallest, included is the
\* two smallest in that order, excluded the largest, and totalTokens the sum
\* of the two.
C10_SizeOrderAndTwoSmallest ==
  /\ (pc # "start" /\ sortStrategy = "size") =>
       \A i, j \in 1..Len(sortedSummaries) :
         i < j =>
           \/ Len(sortedSummaries[i].content) < Len(sortedSummaries[j].content)
           \/ /\ Len(sortedSummaries[i].content) = Len(sortedSummaries[j].content)
              /\ sortedSummaries[i].id < sortedSummaries[j].id
  /\ (pc = "done" /\ sortStrategy = "size" /\ FitsExactlyTwoSmallest) =>
       LET s1 == summaries[PositionOfRank(1)]
           s2 == summaries[PositionOfRank(2)]
           s3 == summaries[PositionOfRank(3)]
       IN /\ result.included = <<s1, s2>>
          /\ result.excluded = <<s3>>
          /\ result.totalTokens = estimateTokenCount(s1.content)
                                    + estimateTokenCount(s2.content)

\* three candidates handed over largest-but-one, largest, smallest (as in
\* token costs [10, 20, 5]) with a budget for exactly the two smallest
C10_Witness ==
  /\ pc = "done"
  /\ sortStrategy = "size"
  /\ FitsExactlyTwoSmallest
  /\ PositionOfRank(1) = 3
  /\ PositionOfRank(2) = 1
  /\ PositionOfRank(3) = 2
  /\ result.totalTokens > 0

\* d is a later calendar date than e
DateAfter(d, e) ==
  \/ d[1] > e[1]
  \/ d[1] = e[1] /\ d[2] > e[2]
  \/ d[1] = e[1] /\ d[2] = e[2] /\ d[3] > e[3]

\* every single candidate fits the budget and no two fit together
FitsOnlyOne ==
  /\ summaries # <<>>
  /\ \A i \in 1..Len(summaries) :
       estimateTokenCount(summaries[i].content) <= availableTokens
  /\ \A i, j \in 1..Len(summaries) :
       i # j => estimateTokenCount(summaries[i].content)
                  + estimateTokenCount(summaries[j].content) > availableTokens

\* the input position of the candidate with the latest date, the first of
\* them in input order when several share it
LatestPosition ==
  CHOOSE i \in 1..Len(summaries) :
    \A j \in 1..Len(summaries) :
      \/ i = j
      \/ DateAfter(summaries[i].date, summaries[j].date)
      \/ summaries[i].date = summaries[j].date /\ i < j

\* C11: with strategy "date" the candidates are evaluated most recent first,
\* ties in input order; when the budget fits only one candidate (each fits
\* alone, no two fit together) the only included candidate is the one with
\* the latest date.
C11_DateOrderAndLatest ==
  /\ (pc # "start" /\ sortStrategy = "date") =>
       /\ Len(sortedSummaries) = Len(summaries)
       /\ \A i, j \in 1..Len(sortedSummaries) :
            i < j =>
              \/ DateAfter(sortedSummaries[i].date, sortedSummaries[j].date)
              \/ /\ sortedSummaries[i].date = sortedSummaries[j].date
                 /\ sortedSummaries[i].id < sortedSummaries[j].id
  /\ (pc = "done" /\ sortStrategy = "date" /\ FitsOnlyOne) =>
       /\ result.included = << summaries[LatestPosition] >>
       /\ Len(result.excluded) = Len(summaries) - 1

\* the candidates dated 2024-01-01, 2024-06-01, 2023-01-01 in this order and
\* a budget for one: the one of 2024-06-01 is included
C11_Witness ==
  /\ pc = "done"
  /\ sortStrategy = "date"
  /\ Len(summaries) = 3
  /\ summaries[1].date = <<2024, 1, 1>>
  /\ summaries[2].date = <<2024, 6, 1>>
  /\ summaries[3].date = <<2023, 1, 1>>
  /\ FitsOnlyOne
  /\ result.included = << summaries[2] >>

\* the positions in sortedSummaries of the elements of list, in list order
PositionsIn(list) ==
  [k \in 1..Len(list) |->
     CHOOSE p \in 1..Len(sortedSummaries) : sortedSummaries[p] = list[k]]

IsSubsequenceOfSorted(list) ==
  /\ \A k \in 1..Len(list) : InSeq(list[k], sortedSummaries)
  /\ LET positions == PositionsIn(list)
     IN  \A k \in 1..(Len(list) - 1) : positions[k] < positions[k + 1]

\* C12: for every strategy and budget, included and excluded are
\* subsequences of the candidate list sorted by the strategy.
C12_ResultKeepsSortOrder ==
  pc = "done" =>
    /\ \A i, j \in 1..Len(sortedSummaries) :
         i < j =>
           \/ Compare(sortedSummaries[i], sortedSummaries[j], sortStrategy) < 0
           \/ /\ Compare(sortedSummaries[i], sortedSummaries[j], sortStrategy) = 0
              /\ sortedSummaries[i].id < sortedSummaries[j].id
    /\ IsSubsequenceOfSorted(result.included)
    /\ IsSubsequenceOfSorted(result.excluded)

C12_Witness ==
  /\ pc = "done"
  /\ sortStrategy = "alphabetical"
  /\ sortedSummaries # summaries
  /\ Len(result.included) >= 2
  /\ result.excluded # <<>>

\* the calls that have returned, in order, with their results
Completed ==
  returned \o (IF pc = "done"
                 THEN << [args |-> CurrentArgs, result |-> result] >>
                 ELSE <<>>)

\* C13: two calls with identical arguments, under the same preferences,
\* return structurally identical results, whatever the calls before them
\* left behind.
C13_SameInputsSameResult ==
  \A i, j \in 1..Len(Completed) :
    Completed[i].args = Completed[j].args
      => Completed[i].result = Completed[j].result

\* two calls with the same arguments for a model that only the stored list
\* has; the first call found the cache empty or filled, the second filled
C13_Witness ==
  /\ Len(Completed) >= 2
  /\ Completed[1].args = Completed[2].args
  /\ Completed[1].args.modelId = "gpt-3.5-turbo-0125"
  /\ cachedOpenAIModels = CacheOf(FETCHED_OPENAI_MODELS)
  /\ Completed[2].result.included # <<>>
  /\ Completed[2].result.excluded # <<>>

\* the greedy walk over a sorted list, as one value
RECURSIVE WalkAlone(_, _, _)
WalkAlone(list, available, acc) ==
  IF list = <<>> THEN acc
  ELSE LET t == estimateTokenCount(Head(list).content)
       IN IF acc.totalTokens + t <= available
            THEN WalkAlone(Tail(list), available,
                   [acc EXCEPT !.included = Append(@, Head(list)),
                               !.totalTokens = @ + t])
            ELSE WalkAlone(Tail(list), available,
                   [acc EXCEPT !.excluded = Append(@, Head(list))])

\* the model list a call reads when nothing ran before it: the stored list
\* if there is one that parses, the fallback list otherwise
ModelsAlone ==
  (IF geminiModelsPref.kind = "json" THEN geminiModelsPref.models
   ELSE FALLBACK_GEMINI_MODELS)
  \o (IF openaiModelsPref.kind = "json" THEN openaiModelsPref.models
      ELSE FALLBACK_OPENAI_MODELS)

\* what a call with these arguments returns when it is the only call
ResultAlone(args) ==
  LET id == IF args.modelId # Undefined THEN args.modelId ELSE defaultModel
      hits == {i \in 1..Len(ModelsAlone) : ModelsAlone[i].id = id}
      ceiling == IF hits = {} THEN maxContextTokens
                 ELSE Min2(ModelsAlone[CHOOSE i \in hits : \A j \in hits : i <= j]
                             .contextWindow, maxContextTokens)
      pt == estimateTokenCount(args.promptText)
      available == ceiling - pt - outputReserve
  IN [ WalkAlone(sortSummaries(args.summaries, args.sortStrategy), available,
                 [included |-> <<>>, excluded |-> <<>>, totalTokens |-> 0,
                  maxTokens |-> available, promptTokens |-> pt])
       EXCEPT !.maxTokens = available ]

EveryResultAsAlone ==
  \A i \in 1..Len(Completed) :
    Completed[i].result = ResultAlone(Completed[i].args)

WellDefinedResult ==
  /\ \A k \in 1..Len(result.included) : InSeq(result.included[k], summaries)
  /\ \A k \in 1..Len(result.excluded) : InSeq(result.excluded[k], summaries)
  /\ Len(result.included) + Len(result.excluded) = Len(summaries)
  /\ result.totalTokens \in Nat
  /\ result.promptTokens \in Nat
  /\ result.maxTokens \in Int

\* what a call that has returned has returned
ReturnedAsSpecified ==
  pc = "done" =>
    /\ WellDefinedResult
    /\ summaries = <<>> =>
         /\ result.included = <<>>
         /\ result.excluded = <<>>
         /\ result.totalTokens = 0
    /\ maxContextTokens < 0 =>
         /\ result.included = <<>>
         /\ Len(result.excluded) = Len(summaries)
         /\ result.totalTokens = 0

\* C14: the fitter raises no error for any input: every call, whatever its
\* list, texts and ceiling, runs to its return, and what it returns is a
\* well-defined FitResult; an empty list returns included = [],
\* excluded = [] and total 0, and a negative ceiling returns every candidate
\* in excluded.
C14_NoErrorAllExcluded ==
  /\ <>(pc = "done")
  /\ []ReturnedAsSpecified

\* a call with a negative ceiling and an empty text among the candidates
\* has returned
C14_Witness ==
  /\ pc = "done"
  /\ maxContextTokens < 0
  /\ Len(summaries) >= 2
  /\ \E k \in 1..Len(summaries) : summaries[k].content = <<>>
  /\ Len(result.excluded) = Len(summaries)

\* C18: calculateFitCapacity returns canFit = number of included
\* candidates, total = included plus excluded = the input count, and
\* percentage = canFit / total * 100 rounded to the nearest integer (a half
\* goes up), or 100 when total is 0; so 0 <= canFit <= total and
\* 0 <= percentage <= 100.
C18_CapacityNumbers ==
  kpc = "done" =>
    LET c == fitCapacity.canFit
        t == fitCapacity.total
        p == fitCapacity.percentage
    IN /\ c = Len(result.included)
       /\ t = Len(result.included) + Len(result.excluded)
       /\ t = Len(summaries)
       /\ t = 0 => p = 100
       /\ t > 0 => /\ 2 * (p * t - 100 * c) <= t
                   /\ 2 * (100 * c - p * t) < t
       /\ 0 <= c /\ c <= t
       /\ 0 <= p /\ p <= 100

\* two of three candidates fit: 67 percent
C18_Witness ==
  /\ kpc = "done"
  /\ fitCapacity.canFit = 2
  /\ fitCapacity.total = 3
  /\ fitCapacity.percentage = 67

\* the collection has at least one existing summary
HasSummary ==
  /\ collection # NoCollection
  /\ collection.summaries # <<>>

\* the fit of the run has returned at least one included summary
FitIncludedSome ==
  /\ fitResult # NoFitResult
  /\ fitResult.included # <<>>

EndedInError ==
  /\ stage = "error"
  /\ errorShown
  /\ llmCalls = 0
  /\ notes = 0

C17_CeilOfQuarterLength ==
  LET n == Len(estimateArg)
  IN /\ estimate = -1 => ENABLED EstimateTokens
     /\ estimate # -1 =>
          /\ estimate \in Nat
          /\ 4 * estimate >= n
          /\ \A k \in 0..n : 4 * k >= n => estimate <= k
          /\ n = 0 => estimate = 0
          /\ n \in 1..4 => estimate = 1
          /\ n \in 5..8 => estimate = 2

\* a text of five characters has been estimated at two tokens
C17_Witness ==
  /\ Len(estimateArg) = 5
  /\ estimate = 2

\* the bits of a byte, the highest first
BitsOf(b) == [k \in 1..8 |-> (b \div Pow2(8 - k)) % 2]

RECURSIVE AllBits(_)
AllBits(arr) ==
  IF arr = <<>> THEN <<>> ELSE BitsOf(Head(arr)) \o AllBits(Tail(arr))

\* zero bits appended up to a multiple of six
RECURSIVE PadBits(_)
PadBits(bits) ==
  IF Len(bits) % 6 = 0 THEN bits ELSE PadBits(Append(bits, 0))

\* one character for every group of six bits
RECURSIVE SextetChars(_)
SextetChars(bits) ==
  IF bits = <<>> THEN <<>>
  ELSE << base64abc[32 * bits[1] + 16 * bits[2] + 8 * bits[3] + 4 * bits[4]
                    + 2 * bits[5] + bits[6] + 1] >>
       \o SextetChars(SubSeq(bits, 7, Len(bits)))

\* "=" appended up to a multiple of four characters
RECURSIVE PadChars(_)
PadChars(chars) ==
  IF Len(chars) % 4 = 0 THEN chars ELSE PadChars(Append(chars, "="))

\* the standard base64 encoding (RFC 4648, section 4), which btoa returns
StandardBase64(arr) == PadChars(SextetChars(PadBits(AllBits(arr))))

\* C19: for every byte array, the empty one and those with one or two
\* trailing bytes included, uint8ArrayToBase64 returns the standard base64
\* encoding: 4 * ceil(n / 3) characters, ending in "==" for one trailing
\* byte and in a single "=" for two.
C19_StandardBase64 ==
  bpc = "done" =>
    LET n == Len(bytes)
        len == Len(base64)
        pads == Cardinality({k \in 1..len : base64[k] = "="})
    IN /\ base64 = StandardBase64(bytes)
       /\ len = 4 * ((n + 2) \div 3)
       /\ n % 3 = 0 => pads = 0
       /\ n % 3 = 1 => /\ pads = 2
                       /\ base64[len] = "=" /\ base64[len - 1] = "="
       /\ n % 3 = 2 => /\ pads = 1
                       /\ base64[len] = "="

\* four bytes, the last of them alone in its group, have been encoded
C19_Witness ==
  /\ bpc = "done"
  /\ bytes = << 77, 251, 0, 255 >>
  /\ base64 = << "T", "f", "s", "A", "/", "w", "=", "=" >>

\* C20: resolveSelection keeps the stored id when it is still available
\* (resolved = currentId, changed = false), falls back to the first
\* available id when the stored one is missing, null or empty (resolved =
\* availableIds[0], changed = true), and returns resolved = "" with changed
\* = false when there are no options; so resolved is a member of
\* availableIds unless that list is empty.
C20_SelectionResolved ==
  selection # NoSelection =>
    /\ availableIds = <<>> =>
         selection = [resolved |-> "", changed |-> FALSE]
    /\ availableIds # <<>> =>
         LET stored == currentId.kind = "string" /\ currentId.value # ""
             available == stored /\ \E k \in 1..Len(availableIds) :
                                       availableIds[k] = currentId.value
         IN /\ available =>
                 selection = [resolved |-> currentId.value, changed |-> FALSE]
            /\ ~available =>
                 selection = [resolved |-> availableIds[1], changed |-> TRUE]
            /\ \E k \in 1..Len(availableIds) :
                 availableIds[k] = selection.resolved

\* a stored id that is no longer on offer has been replaced by the first
\* of two available ids
C20_Witness ==
  /\ currentId = StringId("c")
  /\ availableIds = << "b", "a" >>
  /\ selection = [resolved |-> "b", changed |-> TRUE]

\* the notes that are copies of the k-th default prompt
Copies(k) ==
  promptNotes[<< DEFAULT_PROMPTS[k], TRUE >>]
    + promptNotes[<< DEFAULT_PROMPTS[k], FALSE >>]

\* C21: default prompts are created only if no prompt note exists: after
\* any sequence of createDefaultPrompts invocations, overlapping ones
\* included, the library holds at most one copy of each DEFAULT_PROMPTS
\* entry.
C21_AtMostOneCopyOfEachDefault ==
  \A k \in 1..Len(DEFAULT_PROMPTS) : Copies(k) <= 1

\* the child notes that carry the tag of one artifact kind
TaggedWith(kind) == {n \in 1..Len(childNotes) : childNotes[n].kind = kind}

\* C22: for every artifact kind (outline, glossary, section summaries, tag
\* suggestions) at most one child note of the parent carries that kind's tag
C22_OneTaggedNotePerKind ==
  \A kind \in ReaderKinds \cup {SUGGESTIONS_TAG} :
    Cardinality(TaggedWith(kind)) <= 1

\* what a call of handleAutoTagNotify could change
AutoTagEffects == << suggestCalls, childNotes, annotationTags >>

\* C23: the toggle is off at first; a call of handleAutoTagNotify made while
\* the toggle is off, or for a type other than "item", or for an event other
\* than "add" and "modify", returns at once and calls no LLM, stores no
\* suggestion and modifies no item, then and ever after
C23_ClosedGateNoEffect ==
  /\ ~enabled
  /\ [][/\ \A h \in {g \in Handlers : handler[g].at = "idle"},
           event \in NotifyEvents, type \in NotifyTypes, ids \in NotifyIds :
           (/\ ~enabled \/ type # "item" \/ event \notin {"add", "modify"}
            /\ StartNotify(h, event, type, ids))
           => (handler'[h] = RejectedHandler /\ UNCHANGED AutoTagEffects)
      /\ \A h \in Handlers :
           handler[h] = RejectedHandler => handler'[h] = RejectedHandler]_vars

C23_Witness ==
  /\ ~enabled
  /\ handler[1] = RejectedHandler
  /\ handler[2].op = "notify" /\ handler[2].at = "llm"
  /\ suggestCalls = 1

\* C24: the tags of an annotation change only in applySuggestion for that
\* annotation, which adds the suggested tags and #zoterolm-autotagged; the
\* notify handler, the manual suggest and ignoreSuggestion change none
C24_TagsOnlyByApply ==
  [][\A a \in AnnotationIds :
       annotationTags'[a] # annotationTags[a] =>
         \E h \in Handlers :
           /\ handler[h].op = "apply" /\ handler[h].ann = a
           /\ handler'[h].at = "tagged"
           /\ HasSuggestionFor(StoredSuggestions, a)
           /\ annotationTags'[a] =
                annotationTags[a]
                  \cup TagsOf(SuggestionFor(StoredSuggestions, a).suggestedTags)
                  \cup {APPLIED_TAG}]_vars

C24_Witness ==
  /\ annotationTags[1] = {"topic", APPLIED_TAG}
  /\ annotationTags[2] = {}
  /\ HasSuggestionFor(StoredSuggestions, 2)
  /\ \E h \in Handlers : handler[h] = DoneHandler("ignore")

\* no two entries of a list have the same annotationId
NoDuplicateIds(list) ==
  \A j, k \in 1..Len(list) :
    list[j].annotationId = list[k].annotationId => j = k

\* the step of call h that makes its list the stored one
Stores(h) ==
  /\ handler[h].at \in {"find", "saving"}
  /\ handler'[h] # handler[h]
  /\ childNotes' # childNotes

\* C27: the stored suggestion list never holds two suggestions for one
\* annotationId; an upsert for an annotationId that is present leaves the
\* stored list as it is; what applySuggestion and ignoreSuggestion store is
\* the stored list without the entries of their annotationId, no more and
\* no less
C27_SuggestionListKept ==
  /\ [](\A n \in TaggedWith(SUGGESTIONS_TAG) : NoDuplicateIds(childNotes[n].list))
  /\ [][\A h \in Handlers :
          /\ (/\ handler[h].at = "upsert"
              /\ handler'[h] # handler[h]
              /\ HasSuggestionFor(StoredSuggestions, handler[h].ann))
             => (UNCHANGED childNotes /\ handler'[h].at # "find")
          /\ (handler[h].op \in {"apply", "ignore"} /\ Stores(h))
             => StoredSuggestions'
                  = Without(StoredSuggestions, handler[h].ann)]_vars

\* C25: the number of summaries the dialog announced as fitting is the
\* number of summaries included in the request
C25_AnnouncedIsIncluded ==
  fitResult # NoFitResult => fitCapacity.canFit = Len(fitResult.included)

\* C29: every progress value the tracker has notified since its reset lies
\* within 0..100 and none is lower than the one before it
C29_ProgressNeverDecreases ==
  \A k \in 1..Len(notified) :
    /\ AtMost(Whole(0), notified[k]) /\ AtMost(notified[k], Whole(100))
    /\ k > 1 => AtMost(notified[k - 1], notified[k])

Classified == successCount + errorCount + skippedCount

\* the items before itemIndex are the ones counted; after the loop all are
CountedSoFar ==
  /\ (spc = "finished")
       => (/\ itemIndex = Len(selectedItems) + 1
           /\ Classified = Len(selectedItems))
  /\ (spc \in {"loop", "pdfcheck", "extract", "llm", "save"})
       => (/\ itemIndex <= Len(selectedItems) + 1
           /\ Classified = itemIndex - 1)

\* C26: when the loop of summarizeSelectedItems has ended, every selected
\* item has been counted once as success, error or skipped; an exception
\* while an item is processed adds one to errorCount and the loop goes on
\* with the next item
C26_EveryItemCountedOnce ==
  /\ []CountedSoFar
  /\ [][(PdfChecked(FALSE) \/ Extracted(FALSE) \/ BatchLlmDone(FALSE)
            \/ SummarySaved(FALSE))
          => /\ errorCount' = errorCount + 1
             /\ itemIndex' = itemIndex + 1
             /\ spc' = "loop"
             /\ UNCHANGED << successCount, skippedCount >>]_vars

C26_Witness ==
  /\ spc = "finished"
  /\ selectedItems = << "regular", "regular" >>
  /\ errorCount = 1
  /\ successCount = 1

\* the models whose checkbox is checked
CheckedModels == ModelsWithIdIn(getAllModels, checked)

\* C28 as stated: after updateEnabledModels, getEnabledModels returns
\* exactly the models whose checkbox is checked
C28_EnabledAreChecked ==
  epc = "returned" => enabledResult = CheckedModels

\* C28: after updateEnabledModels, getEnabledModels returns exactly the
\* models whose checkbox is checked when some box is checked, and all
\* models when none is
C28_EnabledAreCheckedOrAll ==
  epc = "returned" =>
    enabledResult = (IF checked = {} THEN getAllModels ELSE CheckedModels)

C28_Witness ==
  /\ epc = "returned"
  /\ checked = {}
  /\ enabledModels = IdsJson(<<>>)
  /\ Len(enabledResult) = 6

\* the provider whose API a provider function calls
ProviderCalled(fn) ==
  IF fn \in {"callGemini", "callGeminiWithPDF"} THEN "gemini" ELSE "openai"

\* the three cases in which callLLM is to fail before any provider call
FailsFirst ==
  LET model == getModelById(RequestedModelId)
  IN \/ model = undefinedModel
     \/ RequestedContentType = "pdf" /\ ~supportsVision(model)
     \/ /\ RequestedContentType = "pdf" /\ request.pdfBase64 # ""
        /\ providerOf(model) = "openai"

\* C30: once callLLM has run, an unknown model id, a PDF request to a model
\* without vision, or a PDF payload for an OpenAI model has raised an error
\* and no provider function was called; in every other case exactly one
\* provider function was called, one of the model's provider
C30_PreChecksThenOneCall ==
  lpc \notin {"idle", "called"} =>
    IF FailsFirst
      THEN lpc = "threw" /\ providerCalls = <<>>
      ELSE /\ lpc \in {"awaiting", "returned", "rejected"}
           /\ Len(providerCalls) = 1
           /\ ProviderCalled(providerCalls[1])
                = providerOf(getModelById(RequestedModelId))

C30_Witness ==
  /\ lpc = "threw"
  /\ request = Request("gpt-3.5-turbo-0125", "pdf", "")
  /\ getModelById("gpt-3.5-turbo-0125") # undefinedModel
  /\ providerCalls = <<>>

====
